---- MODULE Spec2Model ----
(***************************************************************************)
(* Model of the session-state classifier readTailMetadata of               *)
(* conversationParser.ts (src/unnamed/part_001, lines 468-635): the        *)
(* backward walk over the non-blank lines of a session log's tail window.  *)
(*                                                                         *)
(* The walk is a state machine.  Its loop reads line i-1 of the window,    *)
(* JSON.parse's it and leaves the iteration through exactly one `continue` *)
(* or `return` statement; every such statement is one action.  A line's    *)
(* content is chosen when the loop reads it (lines older than the one that *)
(* ends the walk are never read by the code either).                       *)
(***************************************************************************)
EXTENDS Integers, Sequences, FiniteSets, TLC

(***************************************************************************)
(* Bounds of the model.                                                    *)
(***************************************************************************)
\* The largest number of non-blank lines in the tail window.
MaxLines == 3

(***************************************************************************)
(* JSON values.  Every value carries its JSON/JavaScript kind in `json`;   *)
(* an object's optional members are the fields of the record.              *)
(***************************************************************************)
Undefined == [json |-> "undefined"]
Str(s) == [json |-> "string", text |-> s]
Arr(items) == [json |-> "array", items |-> items]
EmptyObject == [json |-> "object"]
Null == [json |-> "null"]

\* Array.isArray(v)
IsArray(v) == v.json = "array"
\* typeof v === "string"
IsString(v) == v.json = "string"
\* JavaScript truthiness of a string-or-undefined value (undefined, null and ""
\* are falsy).
Truthy(v) == v.json = "string" /\ v.text # ""

\* String.prototype.startsWith
StartsWith(s, p) == Len(s) >= Len(p) /\ SubSeq(s, 1, Len(p)) = p

(***************************************************************************)
(* Content blocks (types.ts ContentBlock).  A JSON null inside a block     *)
(* sequence is NullBlock: reading a property of it throws a TypeError.     *)
(***************************************************************************)
NullBlock == [null |-> TRUE]
Text(s) == [type |-> "text", text |-> s]
TextNoText == [type |-> "text"]
ToolUse(name) == [type |-> "tool_use", name |-> name]
UnnamedToolUse == [type |-> "tool_use"]
ToolResult == [type |-> "tool_result"]
Thinking == [type |-> "thinking"]

IsNull(b) == "null" \in DOMAIN b
\* block.type, block.text, block.name of a non-null block ("" stands for a
\* missing text, which is falsy like the empty string)
BlockType(b) == IF "type" \in DOMAIN b THEN b.type ELSE "undefined"
BlockText(b) == IF "text" \in DOMAIN b THEN b.text ELSE ""
HasName(b) == "name" \in DOMAIN b

IsToolResult(b) == BlockType(b) = "tool_result"
IsNamedToolUse(b) == BlockType(b) = "tool_use" /\ HasName(b)

\* The two callbacks given to content.some / content.find.
Satisfies(b, pred) ==
    IF pred = "tool_result" THEN IsToolResult(b) ELSE IsNamedToolUse(b)

\* content.some(pred) and content.find(pred) visit the blocks in order and stop
\* at the first one that satisfies pred; they throw a TypeError when they reach
\* a null block first.  FirstMatch is the index of the first match, 0 if none.
FirstMatch(items, pred) ==
    LET hits == {k \in 1..Len(items) : ~IsNull(items[k]) /\ Satisfies(items[k], pred)}
    IN  IF hits = {} THEN 0 ELSE CHOOSE k \in hits : \A j \in hits : k <= j
FirstNull(items) ==
    LET nulls == {k \in 1..Len(items) : IsNull(items[k])}
    IN  IF nulls = {} THEN 0 ELSE CHOOSE k \in nulls : \A j \in nulls : k <= j
ScanThrows(items, pred) ==
    /\ FirstNull(items) # 0
    /\ FirstMatch(items, pred) = 0 \/ FirstNull(items) < FirstMatch(items, pred)

(***************************************************************************)
(* Timestamps: ISO-8601 strings.  GetTime models new Date(ts).getTime()    *)
(* for the strings of the form 1970-01-01T00:MM:SS.mmmZ and is NaN for     *)
(* any other string.                                                       *)
(***************************************************************************)
Digits == <<"0", "1", "2", "3", "4", "5", "6", "7", "8", "9">>
IsDigit(c) == \E d \in 1..10 : Digits[d] = c
DigitValue(c) == (CHOOSE d \in 1..10 : Digits[d] = c) - 1
RECURSIVE ParseDigits(_)
ParseDigits(s) ==
    IF Len(s) = 0 THEN 0
    ELSE 10 * ParseDigits(SubSeq(s, 1, Len(s) - 1)) + DigitValue(SubSeq(s, Len(s), Len(s)))
AllDigits(s) == \A k \in 1..Len(s) : IsDigit(SubSeq(s, k, k))
IsValidDate(s) ==
    /\ Len(s) = 24
    /\ SubSeq(s, 1, 14) = "1970-01-01T00:"
    /\ AllDigits(SubSeq(s, 15, 16)) /\ ParseDigits(SubSeq(s, 15, 16)) < 60
    /\ SubSeq(s, 17, 17) = ":"
    /\ AllDigits(SubSeq(s, 18, 19)) /\ ParseDigits(SubSeq(s, 18, 19)) < 60
    /\ SubSeq(s, 20, 20) = "."
    /\ AllDigits(SubSeq(s, 21, 23))
    /\ SubSeq(s, 24, 24) = "Z"
GetTime(s) ==
    (ParseDigits(SubSeq(s, 15, 16)) * 60 + ParseDigits(SubSeq(s, 18, 19))) * 1000
        + ParseDigits(SubSeq(s, 21, 23))

(***************************************************************************)
(* The records of a session log (types.ts JnsonlMessage).                  *)
(***************************************************************************)
Message(content, stop_reason, model, usage) ==
    [json |-> "object", content |-> content, stop_reason |-> stop_reason,
     model |-> model, usage |-> usage]
Usage(output_tokens) == [json |-> "object", output_tokens |-> output_tokens]
Record(type, isSidechain, isMeta, timestamp, message) ==
    [json |-> "object", type |-> type, isSidechain |-> isSidechain,
     isMeta |-> isMeta, timestamp |-> timestamp, message |-> message]

\* obj.type (undefined for a JSON value that is not an object)
TypeOf(obj) == IF obj.json = "object" THEN obj.type ELSE "<undefined>"
\* msg.message?.content, msg.message?.stop_reason, msg.message?.model,
\* msg.message?.usage?.output_tokens
ContentOf(obj) == IF obj.message.json = "object" THEN obj.message.content ELSE Undefined
StopReasonOf(obj) ==
    IF obj.message.json = "object" THEN obj.message.stop_reason ELSE "<undefined>"
ModelOf(obj) == IF obj.message.json = "object" THEN obj.message.model ELSE "<undefined>"
UsageOf(obj) == IF obj.message.json = "object" THEN obj.message.usage ELSE Undefined
\* typeof outputTokens === 'number'
HasOutputTokens(obj) == UsageOf(obj).json = "object"
OutputTokens(obj) == UsageOf(obj).output_tokens

(***************************************************************************)
(* The classifier's constants and pure helpers.                            *)
(***************************************************************************)
\* Mutant: an auto-approved tool listed among the permission tools.
PERMISSION_TOOLS_WithRead ==
    {"Bash", "Write", "Edit", "NotebookEdit", "AskUserQuestion", "ExitPlanMode", "Read"}
PERMISSION_TOOLS ==
    {"Bash", "Write", "Edit", "NotebookEdit", "AskUserQuestion", "ExitPlanMode"}

INTERRUPT_PREFIX == "[Request interrupted by user"

\* (content[0] as ContentBlock)?.text ?? ""
FirstBlockText(content) ==
    IF Len(content.items) = 0 \/ IsNull(content.items[1]) THEN ""
    ELSE BlockText(content.items[1])

\* Mutant: the tool_result test made before the interrupt test.
IsInterrupt_AfterToolResult(content) ==
    /\ IsArray(content) /\ StartsWith(FirstBlockText(content), INTERRUPT_PREFIX)
    /\ FirstMatch(content.items, "tool_result") = 0
\* Mutant: the interrupt prefix also looked for in plain-string content.
IsInterrupt_AnyForm(content) ==
    \/ IsArray(content) /\ StartsWith(FirstBlockText(content), INTERRUPT_PREFIX)
    \/ IsString(content) /\ StartsWith(content.text, INTERRUPT_PREFIX)
\* if (Array.isArray(content)) { ... text.startsWith("[Request interrupted by user") }
IsInterrupt(content) ==
    IsArray(content) /\ StartsWith(FirstBlockText(content), INTERRUPT_PREFIX)

\* Array.isArray(content) && content.some(block => block.type === "tool_result")
HasToolResult(content) ==
    IsArray(content) /\ FirstMatch(content.items, "tool_result") # 0
HasToolResultThrows(content) ==
    IsArray(content) /\ ScanThrows(content.items, "tool_result")

\* Mutant: the test for system-generated messages left out.
IsSystemGenerated_Never(content) == FALSE
\* Mutant: every plain-string content taken for a system-generated message.
IsSystemGenerated_AnyString(content) == IsString(content)
\* typeof content === "string" && content.startsWith("<")
IsSystemGenerated(content) == IsString(content) /\ StartsWith(content.text, "<")

\* Mutant: refusal forgotten among the terminal stop reasons.
IsCompleted_NoRefusal(stopReason) == stopReason \in {"end_turn", "stop_sequence"}
\* stopReason === "end_turn" || stopReason === "stop_sequence" || stopReason === "refusal"
IsCompleted(stopReason) == stopReason \in {"end_turn", "stop_sequence", "refusal"}

\* content.reduce((sum, block) => sum + (block.type === 'text' && block.text
\*   ? block.text.length : 0), 0), 0 when content is not an array
RECURSIVE SumText(_)
SumText(items) ==
    IF Len(items) = 0 THEN 0
    ELSE SumText(SubSeq(items, 1, Len(items) - 1))
         + (LET block == items[Len(items)]
            IN  IF BlockType(block) = "text" /\ BlockText(block) # ""
                THEN Len(BlockText(block)) ELSE 0)
\* Mutant: the characters of plain-string content counted as text.
TextLength_CountsStrings(content) ==
    IF IsArray(content) THEN SumText(content.items)
    ELSE IF IsString(content) THEN Len(content.text) ELSE 0
TextLength(content) == IF IsArray(content) THEN SumText(content.items) ELSE 0
\* the reduce reads block.type of every block: any null block throws
TextLengthThrows(content) == IsArray(content) /\ FirstNull(content.items) # 0

\* Array.isArray(content) && content.some(block => block.type === "tool_use"
\*   && block.name !== undefined)
HasToolUse(content) ==
    IsArray(content) /\ FirstMatch(content.items, "tool_use") # 0

\* Mutant: the last named tool_use block found instead of the first.
ToolUseBlock_Last(content) ==
    LET hits == {k \in 1..Len(content.items) :
                   ~IsNull(content.items[k]) /\ IsNamedToolUse(content.items[k])}
    IN  IF hits = {} THEN 0 ELSE CHOOSE k \in hits : \A j \in hits : k >= j
\* content.find(block => block.type === "tool_use" && block.name !== undefined):
\* the index of the block, 0 for undefined
ToolUseBlock(content) == FirstMatch(content.items, "tool_use")
ToolUseBlockThrows(content) ==
    IsArray(content) /\ ScanThrows(content.items, "tool_use")
ToolUseName(content) == content.items[ToolUseBlock(content)].name

\* outputTokens <= 1
IsLowTokenCount(outputTokens) == outputTokens <= 1
\* Mutant: the negation of hasToolUse dropped.
IsAbandonedText_NeedsToolUse(textLength, hasToolUse) == textLength > 100 /\ hasToolUse
\* textLength > 100 && !hasToolUse
IsAbandonedText(textLength, hasToolUse) == textLength > 100 /\ ~hasToolUse
\* Mutant: the text response marked whether or not a tool_result was seen.
MarksTextResponse_IgnoresToolResult(textLength, hasToolUse, seen) ==
    textLength > 0 /\ ~hasToolUse
\* textLength > 0 && !hasToolUse && !toolResultSeen
MarksTextResponse(textLength, hasToolUse, seen) ==
    textLength > 0 /\ ~hasToolUse /\ ~seen
\* Mutant: the ratio test made inclusive.
IsDisproportionate_Inclusive(textLength, outputTokens) ==
    textLength > 10 /\ 20 * outputTokens <= textLength
\* textLength > 10 && outputTokens < textLength / 20
IsDisproportionate(textLength, outputTokens) ==
    textLength > 10 /\ 20 * outputTokens < textLength

\* Mutant: the grace comparison turned around (age < 3000).
GraceExpired_TurnedAround(ts, dateNow) ==
    IF ~Truthy(ts) THEN TRUE
    ELSE IF ~IsValidDate(ts.text) THEN FALSE
    ELSE dateNow - GetTime(ts.text) < 3000
\* Mutant: a permission prompt older than ten minutes no longer reported.
GraceExpired_UntilStale(ts, dateNow) ==
    IF ~Truthy(ts) THEN TRUE
    ELSE IF ~IsValidDate(ts.text) THEN FALSE
    ELSE dateNow - GetTime(ts.text) > 3000 /\ dateNow - GetTime(ts.text) <= 600000
\* Mutant: the grace comparison made inclusive (age >= 3000).
GraceExpired_Inclusive(ts, dateNow) ==
    IF ~Truthy(ts) THEN TRUE
    ELSE IF ~IsValidDate(ts.text) THEN FALSE
    ELSE dateNow - GetTime(ts.text) >= 3000
\* const age = ts ? Date.now() - new Date(ts).getTime() : Infinity; age > 3000
\* (Infinity > 3000 is true; a NaN age compares false)
GraceExpired(ts, dateNow) ==
    IF ~Truthy(ts) THEN TRUE
    ELSE IF ~IsValidDate(ts.text) THEN FALSE
    ELSE dateNow - GetTime(ts.text) > 3000

(***************************************************************************)
(* The lines a tail window is drawn from.                                  *)
(***************************************************************************)
T5 == "hello"
T10 == "0123456789"
T40 == T10 \o T10 \o T10 \o T10
T41 == T40 \o "a"
T60 == T40 \o T10 \o T10
T100 == T60 \o T40
T101 == T100 \o "a"

Timestamps ==
    {Undefined, Str(""), Str("not-a-date"), Str("1970-01-01T00:00:01.000Z")}

\* The values Date.now() may return (ages 2999, 3000 and 3001 ms against the
\* valid timestamp).
Nows == {3999, 4000, 4001}

UserBlocks ==
    {Text("[Request interrupted by user for tool use]"), Text(T5), ToolResult, NullBlock}
UserContents ==
    {Undefined, Null, EmptyObject, Str("fix this bug"), Str(""),
     Str("<task-notification>done</task-notification>"),
     Str("[Request interrupted by user]"),
     Arr(<<>>), Arr(<<TextNoText>>), Arr(<<Text("<system-reminder>")>>)}
    \cup {Arr(<<a>>) : a \in UserBlocks}
    \cup {Arr(<<a, b>>) : a \in UserBlocks, b \in UserBlocks}
UserMessages ==
    {Undefined} \cup {[json |-> "object", content |-> c] : c \in UserContents}

StopReasons ==
    {"end_turn", "stop_sequence", "refusal", "max_tokens", "tool_use", "<null>",
     "<undefined>"}
Usages == {Undefined} \cup {Usage(t) : t \in {0, 1, 2, 5, 6}}
AssistantContents ==
    {Undefined, Str(T101), Arr(<<>>), Arr(<<TextNoText>>), Arr(<<Thinking>>),
     Arr(<<Text(T5)>>), Arr(<<Text(T40)>>), Arr(<<Text(T41)>>), Arr(<<Text(T100)>>),
     Arr(<<Text(T101)>>), Arr(<<Text(T60), Text(T41)>>),
     Arr(<<ToolUse("Read")>>), Arr(<<ToolUse("")>>), Arr(<<UnnamedToolUse>>),
     Arr(<<UnnamedToolUse, ToolUse("Bash")>>),
     Arr(<<ToolUse("Read"), ToolUse("Bash")>>),
     Arr(<<ToolUse("Bash"), ToolUse("Read")>>),
     Arr(<<Text(T5), ToolUse("Bash")>>), Arr(<<Text(T41), ToolUse("Bash")>>),
     Arr(<<Text(T101), ToolUse("Bash")>>), Arr(<<Text(T101), ToolUse("Read")>>),
     Arr(<<NullBlock>>), Arr(<<NullBlock, ToolUse("Bash")>>),
     Arr(<<ToolUse("Bash"), NullBlock>>)}
    \cup {Arr(<<ToolUse(name)>>) : name \in PERMISSION_TOOLS}
AssistantMessages ==
    {Undefined}
    \cup {Message(c, s, "claude-opus-4", u) :
            c \in AssistantContents, s \in StopReasons, u \in Usages}
\* Replay records written after an interruption.
SyntheticMessages ==
    {Message(c, s, "<synthetic>", u) :
        c \in {Arr(<<Text(T5)>>), Arr(<<ToolUse("Bash")>>)},
        s \in {"end_turn", "stop_sequence", "<null>"},
        u \in {Undefined, Usage(0), Usage(6)}}
\* What a sub-agent's records carry.
SidechainMessages ==
    {Message(c, s, "claude-opus-4", u) :
        c \in {Arr(<<Text(T5)>>), Arr(<<ToolUse("Bash")>>)},
        s \in {"end_turn", "<null>"},
        u \in {Undefined, Usage(0), Usage(6)}}

\* A line JSON.parse rejects (malformed JSON, the truncated first line of the
\* window), the JSON value null, a JSON value that is no object (a number).
Unparseable == [json |-> "invalid"]
NullLine == [json |-> "null"]
NumberLine == [json |-> "number"]

Lines ==
    {Unparseable, NullLine, NumberLine}
    \cup {Record(t, sc, FALSE, ts, Undefined) :
            t \in {"summary", "custom-title", "file-history-snapshot", "<undefined>"},
            sc \in BOOLEAN, ts \in Timestamps}
    \cup {Record("user", sc, meta, ts, m) :
            sc \in BOOLEAN, meta \in BOOLEAN, ts \in Timestamps, m \in UserMessages}
    \cup {Record("assistant", FALSE, FALSE, ts, m) :
            ts \in Timestamps, m \in AssistantMessages \cup SyntheticMessages}
    \cup {Record("assistant", TRUE, FALSE, ts, m) :
            ts \in Timestamps, m \in SidechainMessages}

(***************************************************************************)
(* State of one invocation of readTailMetadata.                            *)
(*   pc      where the invocation stands: "start" (before the file is      *)
(*           read), "loop" (at the loop head), "parsed" (JSON.parse of     *)
(*           lines[i] succeeded), "done" (returned)                        *)
(*   n       lines.length: the non-blank lines of the tail window          *)
(*   i       the loop index                                                *)
(*   obj     the parsed line of this iteration                             *)
(*   result  the TailMetadata that is returned                             *)
(*   now     the value Date.now() returned, 0 while it was not called      *)
(*   via     the statement through which the last iteration was left       *)
(* and of the caller's view of whole invocations (used by SpecFile below): *)
(*   disk    the session log on disk: its lines with their byte lengths    *)
(*   runs    the invocations made on the log since it last changed, each   *)
(*           with the clock it read and the outcome it returned            *)
(* of the conversation list (used by SpecList):                            *)
(*   listing the last parseConversationFileFast of the log: the values it  *)
(*           read and the ConversationMeta it resolved to                  *)
(*   item    the ConversationItem last built from the listing              *)
(* of the tab tracker and the editor (used by SpecTabs):                   *)
(*   sessionToTitle, titleToSession  the maps of TabSessionTracker         *)
(*   tabs    the Claude Code webview tabs of the window, in tab order:     *)
(*           the label of each and the session it shows                    *)
(*   opened  what the last claudeConversations.open command did            *)
(* and of a title on its way to a tab label (used by SpecTitle):           *)
(*   title     the conversation title, a sequence of characters            *)
(*   tabTitle  what normalizeTabTitle returned for it (a string value)     *)
(* of a reader racing with the writer of a log (used by SpecRace):         *)
(*   written   how many bytes of the last line of disk are on the disk     *)
(*   snapshot  what fs.statSync told the invocation that has not yet read  *)
(* of the commands of extension.ts (used by SpecCommands):                 *)
(*   suppressOpen  the module flag of extension.ts                         *)
(*   selecting     the togglePin commands whose list.select is in flight   *)
(*   command       what the last command that finished did                 *)
(* and of pinManager.ts (used by SpecPins):                                *)
(*   pinFile   the content of ~/.claude/conversation-pins.json             *)
(*   pinCall   the last call of pinSession or unpinSession                 *)
(***************************************************************************)
VARIABLES pc, n, i, obj, toolResultSeen, textResponseSeen, result, now, via,
          disk, runs, listing, item, sessionToTitle, titleToSession, tabs,
          opened, title, tabTitle, written, snapshot, suppressOpen, selecting,
          command, pinFile, pinCall

walkVars == <<pc, n, i, obj, toolResultSeen, textResponseSeen, result, now, via>>
fileVars == <<disk, runs>>
listVars == <<listing, item>>
tabVars == <<sessionToTitle, titleToSession, tabs, opened>>
titleVars == <<title, tabTitle>>
\* What belongs to the callers of readTailMetadata and to the rest of the
\* extension.
raceVars == <<written, snapshot>>
commandVars == <<suppressOpen, selecting, command>>
pinVars == <<pinFile, pinCall>>
extensionVars == <<raceVars, commandVars, pinVars>>
callerVars == <<fileVars, listVars, tabVars, titleVars, extensionVars>>
vars == <<walkVars, callerVars>>

\* The extension right after activation, nothing listed or opened yet; the
\* workspace storage holds no persisted Claude Code panel.
InitExtension ==
    /\ listing = [json |-> "undefined"]
    /\ item = [json |-> "undefined"]
    /\ sessionToTitle = <<>>
    /\ titleToSession = <<>>
    /\ tabs = <<>>
    /\ opened = [json |-> "undefined"]
    /\ title = <<>>
    /\ tabTitle = [json |-> "undefined"]
    /\ written = 0
    /\ snapshot = [json |-> "undefined"]
    /\ suppressOpen = FALSE
    /\ selecting = 0
    /\ command = [json |-> "undefined"]
    /\ pinFile = [json |-> "undefined"]
    /\ pinCall = [json |-> "undefined"]

Init ==
    /\ pc = "start"
    /\ n = 0
    /\ i = 0
    /\ obj = Undefined
    /\ toolResultSeen = FALSE
    /\ textResponseSeen = FALSE
    /\ result = [isWaiting |-> FALSE, isToolUseWaiting |-> FALSE,
                 lastTimestamp |-> Undefined]
    /\ now = 0
    /\ via = "start"
    /\ disk = <<>>
    /\ runs = <<>>
    /\ InitExtension

\* Mutant: every surviving record that carries a timestamp overwrites the one
\* captured before.
Captured_Overwrites(res, msg) ==
    IF Truthy(msg.timestamp)
    THEN [res EXCEPT !.lastTimestamp = msg.timestamp]
    ELSE res
\* if (!result.lastTimestamp && msg.timestamp) result.lastTimestamp = msg.timestamp
Captured(res, msg) ==
    IF ~Truthy(res.lastTimestamp) /\ Truthy(msg.timestamp)
    THEN [res EXCEPT !.lastTimestamp = msg.timestamp]
    ELSE res

\* obj.gitBranch / result.gitBranch: the property is absent unless it was written.
GitBranchOf(o) == IF "gitBranch" \in DOMAIN o THEN o.gitBranch ELSE Undefined
\* Mutant: the branch of every surviving record overwrites the captured one
\* (the branch of the oldest record reached is returned).
CapturedBranch_Overwrites(res, msg) ==
    IF Truthy(GitBranchOf(msg))
    THEN [isWaiting |-> res.isWaiting, isToolUseWaiting |-> res.isToolUseWaiting,
          lastTimestamp |-> res.lastTimestamp, gitBranch |-> GitBranchOf(msg)]
    ELSE res
\* The capture of gitBranch next to that of lastTimestamp, as the walker's
\* rule 5 describes it ("capture gitBranch and lastTimestamp from it if not
\* already captured"): the release that reads the branch from the tail
\* (changelog 0.6.1) is exercised by the tests of Group 20.
CapturedBranch(res, msg) ==
    IF ~Truthy(GitBranchOf(res)) /\ Truthy(GitBranchOf(msg))
    THEN [isWaiting |-> res.isWaiting, isToolUseWaiting |-> res.isToolUseWaiting,
          lastTimestamp |-> res.lastTimestamp, gitBranch |-> GitBranchOf(msg)]
    ELSE res

\* `continue`: the next iteration starts with a fresh obj
Continue(label) ==
    /\ pc' = "loop"
    /\ i' = i - 1
    /\ obj' = Undefined
    /\ via' = label
    /\ UNCHANGED <<n, callerVars>>

\* `return result` (also from the catch clause)
Return(label) ==
    /\ pc' = "done"
    /\ via' = label
    /\ UNCHANGED <<n, i, obj, callerVars>>

\* The record survived the summary / non-conversation / sidechain / synthetic
\* filters (lines 495-512).
IsConversation(o) == o.json # "null" /\ TypeOf(o) \in {"user", "assistant"}
\* Mutant: the test for synthetic replay records left out.
IsSynthetic_Never(o) == FALSE
\* type === "assistant" && msg.message?.model === "<synthetic>"
IsSynthetic(o) == TypeOf(o) = "assistant" /\ ModelOf(o) = "<synthetic>"
Survives(o) == IsConversation(o) /\ ~o.isSidechain /\ ~IsSynthetic(o)
AtUser == pc = "parsed" /\ Survives(obj) /\ TypeOf(obj) = "user"
AtAssistant == pc = "parsed" /\ Survives(obj) /\ TypeOf(obj) = "assistant"

\* fs.statSync / openSync / readSync throws: the catch clause returns the default.
FileError ==
    /\ pc = "start"
    /\ Return("catch")
    /\ UNCHANGED <<toolResultSeen, textResponseSeen, result, now>>

\* The tail window is read and split into its non-blank lines.
ReadTail ==
    /\ pc = "start"
    /\ \E len \in 0..MaxLines : n' = len /\ i' = len - 1
    /\ pc' = "loop"
    /\ via' = "read"
    /\ UNCHANGED <<obj, toolResultSeen, textResponseSeen, result, now, callerVars>>

\* The loop condition i >= 0 fails: the scan is exhausted.
Exhausted ==
    /\ pc = "loop" /\ i < 0
    /\ pc' = "done"
    /\ UNCHANGED <<n, i, obj, toolResultSeen, textResponseSeen, result, now, via,
                   callerVars>>

\* JSON.parse(lines[i]) throws: continue.
ParseFails ==
    /\ pc = "loop" /\ i >= 0
    /\ Unparseable \in Lines
    /\ Continue("parseFails")
    /\ UNCHANGED <<toolResultSeen, textResponseSeen, result, now>>

ParseLine ==
    /\ pc = "loop" /\ i >= 0
    /\ \E line \in Lines \ {Unparseable} : obj' = line
    /\ pc' = "parsed"
    /\ via' = "parse"
    /\ UNCHANGED <<n, i, toolResultSeen, textResponseSeen, result, now, callerVars>>

\* Mutant: the TypeError of obj.type leaves the function uncaught.
NullObject_Raises ==
    /\ pc = "parsed" /\ obj.json = "null"
    /\ pc' = "raised"
    /\ via' = "throw"
    /\ UNCHANGED <<n, i, obj, toolResultSeen, textResponseSeen, result, now, callerVars>>

\* obj is null: obj.type throws a TypeError, caught by the outer catch.
NullObject ==
    /\ pc = "parsed" /\ obj.json = "null"
    /\ Return("catch")
    /\ UNCHANGED <<toolResultSeen, textResponseSeen, result, now>>

\* Mutant: a summary record skipped like any other non-conversation record.
Summary_Transparent ==
    /\ pc = "parsed" /\ obj.json # "null" /\ TypeOf(obj) = "summary"
    /\ Continue("summary")
    /\ UNCHANGED <<toolResultSeen, textResponseSeen, result, now>>

\* if (type === "summary") return result
Summary ==
    /\ pc = "parsed" /\ obj.json # "null" /\ TypeOf(obj) = "summary"
    /\ Return("summary")
    /\ UNCHANGED <<toolResultSeen, textResponseSeen, result, now>>

SkipNonConversation ==
    /\ pc = "parsed" /\ obj.json # "null"
    /\ TypeOf(obj) \notin {"summary", "user", "assistant"}
    /\ Continue("nonConversation")
    /\ UNCHANGED <<toolResultSeen, textResponseSeen, result, now>>

SkipSidechain ==
    /\ pc = "parsed" /\ IsConversation(obj) /\ obj.isSidechain
    /\ Continue("sidechain")
    /\ UNCHANGED <<toolResultSeen, textResponseSeen, result, now>>

SkipSynthetic ==
    /\ pc = "parsed" /\ IsConversation(obj) /\ ~obj.isSidechain /\ IsSynthetic(obj)
    /\ Continue("synthetic")
    /\ UNCHANGED <<toolResultSeen, textResponseSeen, result, now>>

(***************************************************************************)
(* User records (lines 519-551).                                           *)
(***************************************************************************)
UserInterrupt ==
    /\ AtUser /\ IsInterrupt(ContentOf(obj))
    /\ result' = Captured(result, obj)
    /\ Return("interrupt")
    /\ UNCHANGED <<toolResultSeen, textResponseSeen, now>>

\* content.some reaches a null block: TypeError, caught by the outer catch
\* (the timestamp was captured before).
UserThrows ==
    /\ AtUser /\ ~IsInterrupt(ContentOf(obj))
    /\ HasToolResultThrows(ContentOf(obj))
    /\ result' = Captured(result, obj)
    /\ Return("catch")
    /\ UNCHANGED <<toolResultSeen, textResponseSeen, now>>

\* Mutant: the tool_result record skipped without being recorded.
UserToolResult_Forgets ==
    /\ AtUser /\ ~IsInterrupt(ContentOf(obj))
    /\ ~HasToolResultThrows(ContentOf(obj))
    /\ HasToolResult(ContentOf(obj))
    /\ result' = Captured(result, obj)
    /\ Continue("toolResult")
    /\ UNCHANGED <<toolResultSeen, textResponseSeen, now>>

UserToolResult ==
    /\ AtUser /\ ~IsInterrupt(ContentOf(obj))
    /\ ~HasToolResultThrows(ContentOf(obj))
    /\ HasToolResult(ContentOf(obj))
    /\ toolResultSeen' = TRUE
    /\ result' = Captured(result, obj)
    /\ Continue("toolResult")
    /\ UNCHANGED <<textResponseSeen, now>>

\* None of the interrupt / tool_result rules applied and nothing was thrown.
PastToolResult ==
    /\ AtUser /\ ~IsInterrupt(ContentOf(obj))
    /\ ~HasToolResultThrows(ContentOf(obj))
    /\ ~HasToolResult(ContentOf(obj))

UserMeta ==
    /\ PastToolResult /\ obj.isMeta
    /\ result' = Captured(result, obj)
    /\ Continue("meta")
    /\ UNCHANGED <<toolResultSeen, textResponseSeen, now>>

\* Mutant: a system-generated message counted as a user turn before it is
\* skipped.
UserSystemGenerated_MarksWaiting ==
    /\ PastToolResult /\ ~obj.isMeta
    /\ IsSystemGenerated(ContentOf(obj))
    /\ result' = [Captured(result, obj) EXCEPT !.isWaiting = TRUE]
    /\ Continue("systemGenerated")
    /\ UNCHANGED <<toolResultSeen, textResponseSeen, now>>

UserSystemGenerated ==
    /\ PastToolResult /\ ~obj.isMeta
    /\ IsSystemGenerated(ContentOf(obj))
    /\ result' = Captured(result, obj)
    /\ Continue("systemGenerated")
    /\ UNCHANGED <<toolResultSeen, textResponseSeen, now>>

UserReal ==
    /\ PastToolResult /\ ~obj.isMeta
    /\ ~IsSystemGenerated(ContentOf(obj))
    /\ result' = [Captured(result, obj) EXCEPT !.isWaiting = TRUE]
    /\ Return("realUser")
    /\ UNCHANGED <<toolResultSeen, textResponseSeen, now>>

(***************************************************************************)
(* Assistant records (lines 553-629).                                      *)
(***************************************************************************)
AssistantCompleted ==
    /\ AtAssistant /\ IsCompleted(StopReasonOf(obj))
    /\ result' = Captured(result, obj)
    /\ Return("completed")
    /\ UNCHANGED <<toolResultSeen, textResponseSeen, now>>

\* The streaming-placeholder heuristic runs (lines 566-595).
AtHeuristic ==
    /\ AtAssistant /\ ~IsCompleted(StopReasonOf(obj))
    /\ HasOutputTokens(obj)

\* content.reduce reaches a null block: TypeError, caught by the outer catch.
HeuristicThrows ==
    /\ AtHeuristic /\ TextLengthThrows(ContentOf(obj))
    /\ result' = Captured(result, obj)
    /\ Return("catch")
    /\ UNCHANGED <<toolResultSeen, textResponseSeen, now>>

PlaceholderAbandoned ==
    /\ AtHeuristic /\ ~TextLengthThrows(ContentOf(obj))
    /\ IsLowTokenCount(OutputTokens(obj))
    /\ IsAbandonedText(TextLength(ContentOf(obj)), HasToolUse(ContentOf(obj)))
    /\ result' = Captured(result, obj)
    /\ Return("abandonedPlaceholder")
    /\ UNCHANGED <<toolResultSeen, textResponseSeen, now>>

PlaceholderSkip ==
    /\ AtHeuristic /\ ~TextLengthThrows(ContentOf(obj))
    /\ IsLowTokenCount(OutputTokens(obj))
    /\ ~IsAbandonedText(TextLength(ContentOf(obj)), HasToolUse(ContentOf(obj)))
    /\ textResponseSeen' =
         IF MarksTextResponse(TextLength(ContentOf(obj)), HasToolUse(ContentOf(obj)),
                              toolResultSeen)
         THEN TRUE ELSE textResponseSeen
    /\ result' = Captured(result, obj)
    /\ Continue("placeholder")
    /\ UNCHANGED <<toolResultSeen, now>>

AbandonedRatio ==
    /\ AtHeuristic /\ ~TextLengthThrows(ContentOf(obj))
    /\ ~IsLowTokenCount(OutputTokens(obj))
    /\ IsDisproportionate(TextLength(ContentOf(obj)), OutputTokens(obj))
    /\ result' = Captured(result, obj)
    /\ Return("abandonedRatio")
    /\ UNCHANGED <<toolResultSeen, textResponseSeen, now>>

\* Control reaches the tool_use detection of lines 597-629.
AtToolUseCheck ==
    /\ AtAssistant /\ ~IsCompleted(StopReasonOf(obj))
    /\ \/ ~HasOutputTokens(obj)
       \/ /\ HasOutputTokens(obj)
          /\ ~TextLengthThrows(ContentOf(obj))
          /\ ~IsLowTokenCount(OutputTokens(obj))
          /\ ~IsDisproportionate(TextLength(ContentOf(obj)), OutputTokens(obj))

\* content.find reaches a null block: TypeError, caught by the outer catch.
ToolUseThrows ==
    /\ AtToolUseCheck /\ ToolUseBlockThrows(ContentOf(obj))
    /\ result' = Captured(result, obj)
    /\ Return("catch")
    /\ UNCHANGED <<toolResultSeen, textResponseSeen, now>>

\* content.find returned a block (toolUseBlock is truthy).
FoundToolUse ==
    /\ AtToolUseCheck /\ IsArray(ContentOf(obj))
    /\ ~ToolUseBlockThrows(ContentOf(obj))
    /\ ToolUseBlock(ContentOf(obj)) # 0

\* Mutant: isWaiting set without regard to isToolUseWaiting.
PermissionVerdict_AlwaysWaiting(res, ts, dateNow) ==
    [res EXCEPT !.isToolUseWaiting = GraceExpired(ts, dateNow), !.isWaiting = TRUE]

\* result.isToolUseWaiting = age > 3000;
\* result.isWaiting = !result.isToolUseWaiting;
PermissionVerdict(res, ts, dateNow) ==
    [res EXCEPT !.isToolUseWaiting = GraceExpired(ts, dateNow),
                !.isWaiting = ~GraceExpired(ts, dateNow)]

\* Date.now() is called only when the record has a (truthy) timestamp.
ToolUsePermission ==
    /\ FoundToolUse /\ ~toolResultSeen
    /\ ToolUseName(ContentOf(obj)) \in PERMISSION_TOOLS
    /\ \E dateNow \in Nows :
         /\ now' = IF Truthy(obj.timestamp) THEN dateNow ELSE now
         /\ result' = PermissionVerdict(Captured(result, obj), obj.timestamp, dateNow)
    /\ Return("permissionTool")
    /\ UNCHANGED <<toolResultSeen, textResponseSeen>>

ToolUseAutoApproved ==
    /\ FoundToolUse /\ ~toolResultSeen
    /\ ToolUseName(ContentOf(obj)) \notin PERMISSION_TOOLS
    /\ result' = [Captured(result, obj) EXCEPT !.isWaiting = TRUE]
    /\ Return("autoApprovedTool")
    /\ UNCHANGED <<toolResultSeen, textResponseSeen, now>>

\* Mutant: an answered tool chain always taken for a finished turn.
ToolUseAnswered_AlwaysIdle ==
    /\ FoundToolUse /\ toolResultSeen
    /\ result' = Captured(result, obj)
    /\ Return("answeredTool")
    /\ UNCHANGED <<toolResultSeen, textResponseSeen, now>>

ToolUseAnswered ==
    /\ FoundToolUse /\ toolResultSeen
    /\ result' = IF textResponseSeen THEN Captured(result, obj)
                 ELSE [Captured(result, obj) EXCEPT !.isWaiting = TRUE]
    /\ Return("answeredTool")
    /\ UNCHANGED <<toolResultSeen, textResponseSeen, now>>

\* Mutant: a record without tool_use taken for finished once a tool_result
\* was seen.
AssistantStreaming_IdleWhenAnswered ==
    /\ AtToolUseCheck
    /\ \/ ~IsArray(ContentOf(obj))
       \/ /\ IsArray(ContentOf(obj))
          /\ ~ToolUseBlockThrows(ContentOf(obj))
          /\ ToolUseBlock(ContentOf(obj)) = 0
    /\ result' = IF toolResultSeen THEN Captured(result, obj)
                 ELSE [Captured(result, obj) EXCEPT !.isWaiting = TRUE]
    /\ Return("streaming")
    /\ UNCHANGED <<toolResultSeen, textResponseSeen, now>>

\* result.isWaiting = true; return result (lines 627-629)
AssistantStreaming ==
    /\ AtToolUseCheck
    /\ \/ ~IsArray(ContentOf(obj))
       \/ /\ IsArray(ContentOf(obj))
          /\ ~ToolUseBlockThrows(ContentOf(obj))
          /\ ToolUseBlock(ContentOf(obj)) = 0
    /\ result' = [Captured(result, obj) EXCEPT !.isWaiting = TRUE]
    /\ Return("streaming")
    /\ UNCHANGED <<toolResultSeen, textResponseSeen, now>>

\* const result: TailMetadata = { isWaiting: false, isToolUseWaiting: false }
DefaultResult ==
    [isWaiting |-> FALSE, isToolUseWaiting |-> FALSE, lastTimestamp |-> Undefined]

\* Mutant: the result object kept at module level and reused by the next call.
Call_KeepsResult ==
    /\ pc = "done"
    /\ pc' = "start"
    /\ n' = 0 /\ i' = 0 /\ obj' = Undefined
    /\ toolResultSeen' = FALSE /\ textResponseSeen' = FALSE
    /\ now' = 0
    /\ via' = "call"
    /\ UNCHANGED <<result, callerVars>>

\* The caller invokes readTailMetadata again (on this or another file): every
\* variable of the function is a local, created anew by the call.
Call ==
    /\ pc = "done"
    /\ pc' = "start"
    /\ n' = 0 /\ i' = 0 /\ obj' = Undefined
    /\ toolResultSeen' = FALSE /\ textResponseSeen' = FALSE
    /\ result' = DefaultResult
    /\ now' = 0
    /\ via' = "call"
    /\ UNCHANGED callerVars

Next ==
    \/ Call
    \/ FileError
    \/ ReadTail
    \/ Exhausted
    \/ ParseFails
    \/ ParseLine
    \/ NullObject
    \/ Summary
    \/ SkipNonConversation
    \/ SkipSidechain
    \/ SkipSynthetic
    \/ UserInterrupt
    \/ UserThrows
    \/ UserToolResult
    \/ UserMeta
    \/ UserSystemGenerated
    \/ UserReal
    \/ AssistantCompleted
    \/ HeuristicThrows
    \/ PlaceholderAbandoned
    \/ PlaceholderSkip
    \/ AbandonedRatio
    \/ ToolUseThrows
    \/ ToolUsePermission
    \/ ToolUseAutoApproved
    \/ ToolUseAnswered
    \/ AssistantStreaming

Spec == Init /\ [][Next]_vars

TypeOK ==
    /\ pc \in {"start", "loop", "parsed", "done"}
    /\ n \in 0..MaxLines
    /\ i \in -1..(MaxLines - 1)
    /\ toolResultSeen \in BOOLEAN /\ textResponseSeen \in BOOLEAN
    /\ result.isWaiting \in BOOLEAN /\ result.isToolUseWaiting \in BOOLEAN
    /\ now \in Nows \cup {0}

(***************************************************************************)
(* Whole invocations.  readTailMetadata(file, dateNow) is the function as  *)
(* its caller sees it: the outcome of the walk over the tail window of a   *)
(* file, Date.now() returning dateNow.  StepLine is one iteration of the   *)
(* loop (lines 485-629), the statements in the order of the code.          *)
(***************************************************************************)
\* An iteration left by `continue` / by `return` (or a throw into the catch).
Continues(trs, txs, res, label) ==
    [returns |-> FALSE, toolResultSeen |-> trs, textResponseSeen |-> txs,
     result |-> res, via |-> label]
Returns(trs, txs, res, label) ==
    [returns |-> TRUE, toolResultSeen |-> trs, textResponseSeen |-> txs,
     result |-> res, via |-> label]

\* Lines 519-551.
StepUser(o, trs, txs, res) ==
    LET content == ContentOf(o)
    IN  IF IsInterrupt(content) THEN Returns(trs, txs, res, "interrupt")
        ELSE IF HasToolResultThrows(content) THEN Returns(trs, txs, res, "catch")
        ELSE IF HasToolResult(content) THEN Continues(TRUE, txs, res, "toolResult")
        ELSE IF o.isMeta THEN Continues(trs, txs, res, "meta")
        ELSE IF IsSystemGenerated(content)
             THEN Continues(trs, txs, res, "systemGenerated")
        ELSE Returns(trs, txs, [res EXCEPT !.isWaiting = TRUE], "realUser")

\* Lines 597-629.
StepToolUse(o, trs, txs, res, dateNow) ==
    LET content == ContentOf(o)
        waiting == [res EXCEPT !.isWaiting = TRUE]
    IN  IF ~IsArray(content) THEN Returns(trs, txs, waiting, "streaming")
        ELSE IF ToolUseBlockThrows(content) THEN Returns(trs, txs, res, "catch")
        ELSE IF ToolUseBlock(content) = 0 THEN Returns(trs, txs, waiting, "streaming")
        ELSE IF ~trs
             THEN IF ToolUseName(content) \in PERMISSION_TOOLS
                  THEN Returns(trs, txs, PermissionVerdict(res, o.timestamp, dateNow),
                               "permissionTool")
                  ELSE Returns(trs, txs, waiting, "autoApprovedTool")
        ELSE IF txs THEN Returns(trs, txs, res, "answeredTool")
        ELSE Returns(trs, txs, waiting, "answeredTool")

\* Lines 553-629.
StepAssistant(o, trs, txs, res, dateNow) ==
    LET content == ContentOf(o)
    IN  IF IsCompleted(StopReasonOf(o)) THEN Returns(trs, txs, res, "completed")
        ELSE IF ~HasOutputTokens(o) THEN StepToolUse(o, trs, txs, res, dateNow)
        ELSE IF TextLengthThrows(content) THEN Returns(trs, txs, res, "catch")
        ELSE IF IsLowTokenCount(OutputTokens(o))
             THEN IF IsAbandonedText(TextLength(content), HasToolUse(content))
                  THEN Returns(trs, txs, res, "abandonedPlaceholder")
                  ELSE Continues(trs,
                                 txs \/ MarksTextResponse(TextLength(content),
                                                          HasToolUse(content), trs),
                                 res, "placeholder")
        ELSE IF IsDisproportionate(TextLength(content), OutputTokens(o))
             THEN Returns(trs, txs, res, "abandonedRatio")
        ELSE StepToolUse(o, trs, txs, res, dateNow)

\* Mutant: a record of another kind ends the walk as a summary does.
StepLine_OtherKindEnds(line, trs, txs, res, dateNow) ==
    IF line = Unparseable THEN Continues(trs, txs, res, "parseFails")
    ELSE IF line.json = "null" THEN Returns(trs, txs, res, "catch")
    ELSE IF TypeOf(line) \notin {"user", "assistant"}
         THEN Returns(trs, txs, res, "summary")
    ELSE IF line.isSidechain THEN Continues(trs, txs, res, "sidechain")
    ELSE IF IsSynthetic(line) THEN Continues(trs, txs, res, "synthetic")
    ELSE IF TypeOf(line) = "user"
         THEN StepUser(line, trs, txs, CapturedBranch(Captured(res, line), line))
    ELSE StepAssistant(line, trs, txs, CapturedBranch(Captured(res, line), line),
                       dateNow)
\* Lines 486-517, then the role-specific handling.
StepLine(line, trs, txs, res, dateNow) ==
    IF line = Unparseable THEN Continues(trs, txs, res, "parseFails")
    ELSE IF line.json = "null" THEN Returns(trs, txs, res, "catch")
    ELSE IF TypeOf(line) = "summary" THEN Returns(trs, txs, res, "summary")
    ELSE IF TypeOf(line) \notin {"user", "assistant"}
         THEN Continues(trs, txs, res, "nonConversation")
    ELSE IF line.isSidechain THEN Continues(trs, txs, res, "sidechain")
    ELSE IF IsSynthetic(line) THEN Continues(trs, txs, res, "synthetic")
    ELSE IF TypeOf(line) = "user"
         THEN StepUser(line, trs, txs, CapturedBranch(Captured(res, line), line))
    ELSE StepAssistant(line, trs, txs, CapturedBranch(Captured(res, line), line),
                       dateNow)

\* for (let i = lines.length - 1; i >= 0; i--) { ... } return result: the
\* outcome of the loop from index k (1-based) down, with `at` the index of the
\* line at which the walk returned (0 when the scan was exhausted).
RECURSIVE WalkFrom(_, _, _, _, _, _)
WalkFrom(lines, k, trs, txs, res, dateNow) ==
    IF k = 0 THEN [result |-> res, via |-> "exhausted", at |-> 0]
    ELSE LET step == StepLine(lines[k], trs, txs, res, dateNow)
         IN  IF step.returns
             THEN [result |-> step.result, via |-> step.via, at |-> k]
             ELSE WalkFrom(lines, k - 1, step.toolResultSeen, step.textResponseSeen,
                           step.result, dateNow)
\* Mutant: the lines are walked from the oldest to the newest.
WalkLines_FromOldest(lines, dateNow) ==
    WalkFrom([k \in 1..Len(lines) |-> lines[Len(lines) + 1 - k]], Len(lines),
             FALSE, FALSE, DefaultResult, dateNow)
\* The walk over the non-blank lines of a tail window.
WalkLines(lines, dateNow) ==
    WalkFrom(lines, Len(lines), FALSE, FALSE, DefaultResult, dateNow)

(***************************************************************************)
(* The tail window (lines 471-481).  A file is the sequence of its         *)
(* non-blank lines, each with its length in bytes, the terminating newline *)
(* included.  A line that lies in the window only in part is a fragment of *)
(* JSON text, which JSON.parse rejects.                                    *)
(***************************************************************************)
\* The most lines of a session log.
MaxFileLines == 3
\* Math.min(stat.size, 16384)
TailBytes == 16384

Entry(line, bytes) == [line |-> line, bytes |-> bytes]

\* stat.size
RECURSIVE FileSize(_)
FileSize(file) ==
    IF Len(file) = 0 THEN 0
    ELSE FileSize(SubSeq(file, 1, Len(file) - 1)) + file[Len(file)].bytes
\* Mutant: the whole file read, whatever its size.
ReadSize_WholeFile(size) == size
ReadSize(size) == IF size < TailBytes THEN size ELSE TailBytes
\* Mutant: the window read from the start of the file.
ReadPosition_FromStart(size, readSize) == 0
\* fs.readSync(fd, buf, 0, readSize, stat.size - readSize)
ReadPosition(size, readSize) == size - readSize

\* What the window [position, position + readSize) holds of line k: the text of
\* the line fills the bytes from its offset up to its newline.
PieceOf(file, k, position, readSize) ==
    LET first == FileSize(SubSeq(file, 1, k - 1))
        newline == first + file[k].bytes - 1
        from == IF first < position THEN position ELSE first
        to == IF newline < position + readSize THEN newline ELSE position + readSize
    IN  IF from >= to THEN "none"
        ELSE IF from = first /\ to = newline THEN "whole"
        ELSE "fragment"

\* tail.split("\n").filter((l) => l.trim())
RECURSIVE TailFrom(_, _, _, _)
TailFrom(file, k, position, readSize) ==
    IF k > Len(file) THEN <<>>
    ELSE LET piece == PieceOf(file, k, position, readSize)
             rest == TailFrom(file, k + 1, position, readSize)
         IN  IF piece = "none" THEN rest
             ELSE IF piece = "whole" THEN <<file[k].line>> \o rest
             ELSE <<Unparseable>> \o rest
TailLines(file) ==
    LET size == FileSize(file)
        readSize == ReadSize(size)
    IN  TailFrom(file, 1, ReadPosition(size, readSize), readSize)

readTailMetadata(file, dateNow) == WalkLines(TailLines(file), dateNow)

(***************************************************************************)
(* The session logs invocations are made on.                               *)
(***************************************************************************)
Newer == Str("1970-01-01T00:00:01.000Z")
Older == Str("1970-01-01T00:00:00.500Z")
UserText(content) == [json |-> "object", content |-> content]

\* The record as it is written while the session is on branch b.
OnBranch(record, b) ==
    [json |-> record.json, type |-> record.type, isSidechain |-> record.isSidechain,
     isMeta |-> record.isMeta, timestamp |-> record.timestamp,
     message |-> record.message, gitBranch |-> Str(b)]

CustomTitle == Record("custom-title", FALSE, FALSE, Older, Undefined)
Untyped == Record("<undefined>", FALSE, FALSE, Older, Undefined)
SummaryLine == Record("summary", FALSE, FALSE, Older, Undefined)
SidechainUser ==
    OnBranch(Record("user", TRUE, FALSE, Older, UserText(Str("fix this bug"))),
             "worktree-sidechain")
SyntheticReply ==
    OnBranch(Record("assistant", FALSE, FALSE, Older, Message(Arr(<<Text(T5)>>), "end_turn", "<synthetic>", Undefined)),
             "worktree-replay")
PlainUser ==
    OnBranch(Record("user", FALSE, FALSE, Newer, UserText(Str("fix this bug"))),
             "main")
ToolResultUser ==
    OnBranch(Record("user", FALSE, FALSE, Older, UserText(Arr(<<ToolResult>>))),
             "worktree-feature-branch")
NullBlockUser ==
    OnBranch(Record("user", FALSE, FALSE, Newer, UserText(Arr(<<NullBlock>>))),
             "main")
FinishedReply ==
    OnBranch(Record("assistant", FALSE, FALSE, Newer, Message(Arr(<<Text(T5)>>), "end_turn", "claude-opus-4", Usage(6))),
             "main")
BashCall ==
    OnBranch(Record("assistant", FALSE, FALSE, Newer, Message(Arr(<<ToolUse("Bash")>>), "tool_use", "claude-opus-4", Undefined)),
             "worktree-feature-branch")
TextPlaceholder ==
    Record("assistant", FALSE, FALSE, Undefined,
           Message(Arr(<<Text(T5)>>), "<null>", "claude-opus-4", Usage(1)))

LogLines ==
    {Unparseable, NullLine, NumberLine, CustomTitle, Untyped, SummaryLine,
     SidechainUser, SyntheticReply, PlainUser, ToolResultUser, NullBlockUser,
     FinishedReply, BashCall, TextPlaceholder}
\* A line of a few KB, and a padding line and a user message longer than the
\* window.
LogEntries ==
    {Entry(line, 4000) : line \in LogLines}
    \cup {Entry(line, 17000) : line \in {CustomTitle, PlainUser}}

(***************************************************************************)
(* SpecFile: records are appended to a session log, and readTailMetadata   *)
(* is invoked on it, up to twice between two changes of the file.          *)
(***************************************************************************)
InitFile ==
    /\ disk = <<>>
    /\ runs = <<>>
    /\ pc = "start" /\ n = 0 /\ i = 0 /\ obj = Undefined
    /\ toolResultSeen = FALSE /\ textResponseSeen = FALSE
    /\ result = DefaultResult
    /\ now = 0 /\ via = "start"
    /\ InitExtension

\* The session's writer appends a line.
AppendRecord ==
    /\ Len(disk) < MaxFileLines
    /\ \E entry \in LogEntries : disk' = Append(disk, entry)
    /\ runs' = <<>>
    /\ UNCHANGED <<walkVars, listVars, tabVars, titleVars, extensionVars>>

\* const tailMeta = readTailMetadata(filePath); the clock does not run
\* backwards between two invocations.
Invoke ==
    /\ Len(runs) < 2
    /\ \E dateNow \in Nows :
         /\ Len(runs) = 1 => runs[1].clock <= dateNow
         /\ runs' = Append(runs, [clock |-> dateNow,
                                  outcome |-> readTailMetadata(disk, dateNow)])
    /\ UNCHANGED <<disk, walkVars, listVars, tabVars, titleVars, extensionVars>>

NextFile ==
    \/ AppendRecord
    \/ Invoke

SpecFile == InitFile /\ [][NextFile]_vars

\* The loop of the state machine and StepLine are the same function of the
\* line that is read: every step of Spec out of a parsed line ends as StepLine
\* says.
StepLineAgrees ==
    [][pc = "parsed"
       => LET step == StepLine(obj, toolResultSeen, textResponseSeen, result, now')
          IN  /\ step.returns = (pc' = "done")
              /\ step.toolResultSeen = toolResultSeen'
              /\ step.textResponseSeen = textResponseSeen'
              /\ step.result = result'
              /\ step.via = via']_vars

(***************************************************************************)
(* Vocabulary of the properties, stated on records as the specification    *)
(* describes them.                                                         *)
(***************************************************************************)
Idle(res) == ~res.isWaiting /\ ~res.isToolUseWaiting
Waiting(res) == res.isWaiting /\ ~res.isToolUseWaiting
ToolUseWaiting(res) == ~res.isWaiting /\ res.isToolUseWaiting

\* A decoded record: a JSON object whose content, when it is a block sequence,
\* holds objects only.
ValidRecord(o) ==
    /\ o.json = "object"
    /\ IsArray(ContentOf(o)) =>
         \A k \in 1..Len(ContentOf(o).items) : ~IsNull(ContentOf(o).items[k])
MainUser(o) == ValidRecord(o) /\ o.type = "user" /\ ~o.isSidechain
MainAssistant(o) ==
    /\ ValidRecord(o) /\ o.type = "assistant" /\ ~o.isSidechain
    /\ ModelOf(o) # "<synthetic>"

SpecPermissionToolSet ==
    {"Bash", "Write", "Edit", "NotebookEdit", "AskUserQuestion", "ExitPlanMode"}
TerminalStop(o) == StopReasonOf(o) \in {"end_turn", "stop_sequence", "refusal"}

\* The indexes of the tool_use blocks that have a name, and the name of the
\* first of them.
NamedToolUses(c) ==
    IF IsArray(c)
    THEN {k \in 1..Len(c.items) :
            /\ "type" \in DOMAIN c.items[k] /\ c.items[k].type = "tool_use"
            /\ "name" \in DOMAIN c.items[k]}
    ELSE {}
FirstNamedTool(c) ==
    c.items[CHOOSE k \in NamedToolUses(c) : \A j \in NamedToolUses(c) : k <= j].name
ContainsToolResult(c) ==
    /\ IsArray(c)
    /\ \E k \in 1..Len(c.items) :
         "type" \in DOMAIN c.items[k] /\ c.items[k].type = "tool_result"
FirstBlockIsInterrupt(c) ==
    /\ IsArray(c) /\ Len(c.items) >= 1
    /\ "text" \in DOMAIN c.items[1]
    /\ StartsWith(c.items[1].text, "[Request interrupted by user")
\* Sum of the lengths of the text blocks; 0 for content that is no block sequence.
TextChars(c) ==
    IF ~IsArray(c) THEN 0
    ELSE LET upTo[k \in 0..Len(c.items)] ==
                 IF k = 0 THEN 0
                 ELSE upTo[k - 1]
                      + (IF /\ "type" \in DOMAIN c.items[k] /\ c.items[k].type = "text"
                            /\ "text" \in DOMAIN c.items[k]
                         THEN Len(c.items[k].text) ELSE 0)
         IN  upTo[Len(c.items)]

\* An assistant record that no earlier assistant rule decides: its stop_reason
\* is not terminal and the placeholder heuristic allows fallthrough.
ReachesToolUseDetection(o) ==
    /\ MainAssistant(o) /\ ~TerminalStop(o)
    /\ \/ ~HasOutputTokens(o)
       \/ /\ HasOutputTokens(o)
          /\ OutputTokens(o) >= 2
          /\ ~(TextChars(ContentOf(o)) > 10
               /\ 20 * OutputTokens(o) < TextChars(ContentOf(o)))
MissingTimestamp(o) == o.timestamp.json # "string" \/ o.timestamp.text = ""
ValidTimestamp(o) == o.timestamp.json = "string" /\ IsValidDate(o.timestamp.text)
\* The record's age exceeds the 3000 ms grace window at clock reading t (a missing
\* or empty timestamp is an infinite age, an unparseable one no age at all).
OlderThanGrace(o, t) ==
    \/ MissingTimestamp(o)
    \/ ValidTimestamp(o) /\ t - GetTime(o.timestamp.text) > 3000
\* The iteration at obj is left through one of the exits of tool_use detection.
ToolUseDetectionExits ==
    {"permissionTool", "autoApprovedTool", "answeredTool", "streaming"}

(***************************************************************************)
(* Properties.                                                             *)
(***************************************************************************)

\* C1: at every point of every invocation, whatever the lines of the window
\* and whatever Date.now() returns, the result never has isWaiting and
\* isToolUseWaiting both true.
C1_NeverBothFlags == ~(result.isWaiting /\ result.isToolUseWaiting)
C1_Witness ==
    pc = "done" /\ via = "permissionTool" /\ ToolUseWaiting(result)
        /\ now = 4001 /\ toolResultSeen = FALSE

GenuineUserTurn(o) ==
    /\ MainUser(o) /\ ~o.isMeta
    /\ ~FirstBlockIsInterrupt(ContentOf(o))
    /\ ~ContainsToolResult(ContentOf(o))
    /\ ~(IsString(ContentOf(o)) /\ StartsWith(ContentOf(o).text, "<"))
\* C2: when the walk reaches a non-sidechain user record that is not meta,
\* whose content is neither a block sequence with an interrupt-prefixed first
\* block nor a block sequence containing a tool_result block, and is not plain
\* text starting with "<" (null, absent or empty content and a record with no
\* message included), the walk ends there with isWaiting=true and
\* isToolUseWaiting=false.
C2_GenuineUserTurnWaits ==
    [][pc = "parsed" /\ GenuineUserTurn(obj) => pc' = "done" /\ Waiting(result')]_vars
C2_Witness ==
    /\ pc = "done" /\ GenuineUserTurn(obj) /\ Waiting(result)
    /\ obj.message = Undefined /\ toolResultSeen

\* C3: when the walk reaches a non-sidechain, non-synthetic assistant record
\* whose stop_reason is end_turn, stop_sequence or refusal, the walk ends there
\* with both flags false, whatever the content, the output-token figure and the
\* carry state; a record with any other stop_reason (max_tokens, tool_use,
\* null, absent) is not ended as not-waiting by its stop_reason: without a
\* numeric output-token figure and without an answered tool chain followed by
\* a text placeholder, its verdict is a waiting one.
C3_TerminalStopIsIdle ==
    [][/\ pc = "parsed" /\ MainAssistant(obj) /\ TerminalStop(obj)
          => pc' = "done" /\ Idle(result')
       /\ pc = "parsed" /\ MainAssistant(obj) /\ ~TerminalStop(obj)
          /\ ~HasOutputTokens(obj) /\ ~(toolResultSeen /\ textResponseSeen)
          => pc' = "done" /\ (result'.isWaiting \/ result'.isToolUseWaiting)]_vars
C3_Witness ==
    /\ pc = "done" /\ MainAssistant(obj) /\ StopReasonOf(obj) = "refusal"
    /\ Idle(result) /\ toolResultSeen /\ HasOutputTokens(obj)
    /\ NamedToolUses(ContentOf(obj)) # {}

UnansweredPermissionTool(o) ==
    /\ ReachesToolUseDetection(o)
    /\ NamedToolUses(ContentOf(o)) # {}
    /\ FirstNamedTool(ContentOf(o)) \in SpecPermissionToolSet
\* C4: when the walk reaches an assistant record that falls through to
\* tool_use detection, whose first named tool_use block names a permission
\* tool, with no tool_result seen in newer records, the result is
\* isToolUseWaiting=true, isWaiting=false exactly when now minus the record's
\* timestamp exceeds 3000 ms (a missing timestamp is an infinite age), and
\* isWaiting=true, isToolUseWaiting=false at an age of 3000 ms or less (and
\* for a timestamp that does not parse, whose age compares false).
C4_PermissionGraceBoundary ==
    [][pc = "parsed" /\ UnansweredPermissionTool(obj) /\ ~toolResultSeen
       => /\ pc' = "done"
          /\ IF OlderThanGrace(obj, now')
             THEN ToolUseWaiting(result')
             ELSE Waiting(result')
          /\ ValidTimestamp(obj) /\ now' - GetTime(obj.timestamp.text) = 3000
             => Waiting(result')
          /\ ValidTimestamp(obj) /\ now' - GetTime(obj.timestamp.text) = 3001
             => ToolUseWaiting(result')]_vars
C4_Witness ==
    /\ pc = "done" /\ UnansweredPermissionTool(obj) /\ ~toolResultSeen
    /\ ValidTimestamp(obj) /\ now - GetTime(obj.timestamp.text) = 3000
    /\ Waiting(result)

\* C5 (as stated): when the walk reaches an assistant record with a named
\* tool_use block after a tool_result was seen in newer records, and
\* textResponseSeen is false, the result is isWaiting=true,
\* isToolUseWaiting=false.  It fails for a record that an earlier assistant
\* rule decides (a terminal stop_reason, a skipped or abandoned placeholder).
C5_Original ==
    [][/\ pc = "parsed" /\ MainAssistant(obj)
       /\ NamedToolUses(ContentOf(obj)) # {}
       /\ toolResultSeen /\ ~textResponseSeen
       => pc' = "done" /\ Waiting(result')]_vars
\* C5 (amended): when the walk reaches an assistant record that falls through
\* to tool_use detection and has a named tool_use block, after a tool_result
\* was seen in newer records and with textResponseSeen false, the result is
\* isWaiting=true, isToolUseWaiting=false, whether or not the tool is a
\* permission tool and whatever the record's age.
C5_AnsweredToolUseWaits ==
    [][/\ pc = "parsed" /\ ReachesToolUseDetection(obj)
       /\ NamedToolUses(ContentOf(obj)) # {}
       /\ toolResultSeen /\ ~textResponseSeen
       => pc' = "done" /\ Waiting(result')]_vars
C5_Witness ==
    /\ pc = "done" /\ ReachesToolUseDetection(obj)
    /\ NamedToolUses(ContentOf(obj)) # {}
    /\ FirstNamedTool(ContentOf(obj)) = "Bash" /\ MissingTimestamp(obj)
    /\ toolResultSeen /\ ~textResponseSeen /\ Waiting(result)

ToolUseBlockCount(c) ==
    Cardinality({k \in 1..Len(c.items) :
                   "type" \in DOMAIN c.items[k] /\ c.items[k].type = "tool_use"})

\* C6: tool_use detection consults only the first block, in original order,
\* that is a tool_use block with a name: for an unanswered record with several
\* tool_use blocks the verdict is that of the first named one, so [Read, Bash]
\* yields isWaiting=true and never isToolUseWaiting, [Bash, Read] older than
\* 3000 ms yields isToolUseWaiting=true, and a leading tool_use block without a
\* name is passed over.
C6_FirstNamedToolUseDecides ==
    [][/\ pc = "parsed" /\ ReachesToolUseDetection(obj) /\ ~toolResultSeen
       /\ NamedToolUses(ContentOf(obj)) # {}
       /\ ToolUseBlockCount(ContentOf(obj)) >= 2
       => /\ pc' = "done"
          /\ IF /\ FirstNamedTool(ContentOf(obj)) \in SpecPermissionToolSet
                /\ OlderThanGrace(obj, now')
             THEN ToolUseWaiting(result')
             ELSE Waiting(result')]_vars
C6_Witness ==
    /\ pc = "done" /\ ReachesToolUseDetection(obj) /\ ~toolResultSeen
    /\ ContentOf(obj) = Arr(<<ToolUse("Read"), ToolUse("Bash")>>)
    /\ OlderThanGrace(obj, now) /\ Waiting(result)

\* C7: when the walk reaches an assistant record that falls through to
\* tool_use detection, whose first named tool_use block names a tool outside
\* the permission set (unknown names and the empty name included), with no
\* tool_result seen in newer records, the result is isWaiting=true,
\* isToolUseWaiting=false whatever the record's timestamp.
C7_AutoApprovedToolWaits ==
    [][/\ pc = "parsed" /\ ReachesToolUseDetection(obj) /\ ~toolResultSeen
       /\ NamedToolUses(ContentOf(obj)) # {}
       /\ FirstNamedTool(ContentOf(obj)) \notin SpecPermissionToolSet
       => pc' = "done" /\ Waiting(result') /\ now' = now]_vars
C7_Witness ==
    /\ pc = "done" /\ ReachesToolUseDetection(obj) /\ ~toolResultSeen
    /\ NamedToolUses(ContentOf(obj)) # {}
    /\ FirstNamedTool(ContentOf(obj)) = "" /\ MissingTimestamp(obj)
    /\ Waiting(result)

\* An assistant record the placeholder heuristic sees with at most 1 output
\* token.
LowTokenRecord(o) ==
    /\ MainAssistant(o) /\ ~TerminalStop(o)
    /\ HasOutputTokens(o) /\ OutputTokens(o) <= 1

C9_PlaceholderIsSkipped ==
    [][/\ /\ pc = "parsed" /\ LowTokenRecord(obj)
          /\ \/ TextChars(ContentOf(obj)) <= 100
             \/ NamedToolUses(ContentOf(obj)) # {}
          => /\ pc' = "loop" /\ i' = i - 1
             /\ result'.isWaiting = result.isWaiting
             /\ result'.isToolUseWaiting = result.isToolUseWaiting
       /\ pc' = "done" /\ n' = 1 /\ via' = "placeholder" => Idle(result')]_vars
C9_Witness ==
    pc = "done" /\ n = 1 /\ i = -1 /\ via = "placeholder" /\ Idle(result)

\* C10: an assistant record with a non-terminal stop_reason, at least 2 output
\* tokens, more than 10 characters of text blocks and fewer output tokens than
\* a twentieth of that length ends the walk with both flags false, with or
\* without a tool_use block; with output tokens of at least a twentieth of the
\* length, or a length of at most 10, the record goes on to tool_use detection
\* (its verdict is idle only for an answered tool chain with textResponseSeen).
C10_DisproportionateIsIdle ==
    [][/\ pc = "parsed" /\ MainAssistant(obj) /\ ~TerminalStop(obj)
       /\ HasOutputTokens(obj) /\ OutputTokens(obj) >= 2
       => /\ pc' = "done"
          /\ IF /\ TextChars(ContentOf(obj)) > 10
                /\ 20 * OutputTokens(obj) < TextChars(ContentOf(obj))
             THEN Idle(result') /\ via' \notin ToolUseDetectionExits
             ELSE /\ via' \in ToolUseDetectionExits
                  /\ Idle(result') => toolResultSeen /\ textResponseSeen]_vars
C10_Witness ==
    /\ pc = "done" /\ MainAssistant(obj) /\ ~TerminalStop(obj)
    /\ HasOutputTokens(obj) /\ OutputTokens(obj) = 2
    /\ TextChars(ContentOf(obj)) = 41 /\ NamedToolUses(ContentOf(obj)) # {}
    /\ ~toolResultSeen /\ Idle(result)

\* C11: when the walk reaches an assistant record with a non-terminal
\* stop_reason that the placeholder heuristic lets through (no numeric
\* output-token figure, or one that allows fallthrough) and that has no named
\* tool_use block (plain-string content, an empty or text-only block sequence,
\* no message at all), the walk ends there with isWaiting=true and
\* isToolUseWaiting=false, whether or not a tool_result (or a text
\* placeholder) was seen in newer records.
C11_StreamingAssistantWaits ==
    [][/\ pc = "parsed" /\ ReachesToolUseDetection(obj)
       /\ NamedToolUses(ContentOf(obj)) = {}
       => pc' = "done" /\ Waiting(result')]_vars
C11_Witness ==
    /\ pc = "done" /\ ReachesToolUseDetection(obj)
    /\ NamedToolUses(ContentOf(obj)) = {}
    /\ obj.message = Undefined
    /\ toolResultSeen /\ textResponseSeen /\ Waiting(result)

\* C12: when the walk reaches a record of type summary, it ends there with
\* isWaiting=false and isToolUseWaiting=false and reads no older line, whatever
\* carry state (toolResultSeen, textResponseSeen) the newer records left.
C12_SummaryIsIdle ==
    [][pc = "parsed" /\ obj.json = "object" /\ obj.type = "summary"
       => pc' = "done" /\ i' = i /\ Idle(result')]_vars
C12_Witness ==
    /\ pc = "done" /\ via = "summary" /\ obj.json = "object" /\ obj.type = "summary"
    /\ toolResultSeen /\ textResponseSeen /\ Idle(result)

\* A transparent record: of Other kind (its type is not user, assistant or
\* summary, a missing type included), a sidechain user or assistant record, or
\* an assistant record whose model is "<synthetic>".
TransparentRecord(line) ==
    /\ line.json = "object"
    /\ \/ line.type \notin {"user", "assistant", "summary"}
       \/ line.type \in {"user", "assistant"} /\ line.isSidechain
       \/ /\ line.type = "assistant" /\ line.message.json = "object"
          /\ line.message.model = "<synthetic>"
RECURSIVE WithoutTransparent(_)
WithoutTransparent(lines) ==
    IF Len(lines) = 0 THEN <<>>
    ELSE IF TransparentRecord(lines[1]) THEN WithoutTransparent(Tail(lines))
    ELSE <<lines[1]>> \o WithoutTransparent(Tail(lines))
\* C13: transparent records do not affect the classification: what an
\* invocation returned (both flags and the captured lastTimestamp) is what the
\* walk returns on the same window with every transparent record removed.
C13_TransparentRecordsIgnored ==
    \A r \in 1..Len(runs) :
        runs[r].outcome.result
            = WalkLines(WithoutTransparent(TailLines(disk)), runs[r].clock).result
C13_Witness ==
    /\ Len(runs) = 1 /\ runs[1].clock = 4001
    /\ Len(disk) = 3
    /\ disk[1].line = BashCall /\ disk[2].line = SidechainUser
    /\ disk[3].line = SyntheticReply
    /\ TailLines(disk) = <<BashCall, SidechainUser, SyntheticReply>>
    /\ ToolUseWaiting(runs[1].outcome.result)
    /\ runs[1].outcome.result.lastTimestamp = Newer

PlainInterruptText(o) ==
    /\ IsString(ContentOf(o))
    /\ StartsWith(ContentOf(o).text, "[Request interrupted by user")
\* C14: a user record whose content is a plain string beginning with
\* "[Request interrupted by user" is not treated as an interruption: it never
\* leaves through the interrupt exit and, not being meta, is a genuine human
\* turn (isWaiting=true).  A user record whose content is a block sequence
\* with a first block whose text starts with that prefix ends the walk with
\* both flags false whatever blocks follow, and no other user record ends the
\* walk with both flags false.
C14_InterruptNeedsBlockSequence ==
    [][pc = "parsed" /\ MainUser(obj)
       => /\ PlainInterruptText(obj)
             => /\ via' # "interrupt"
                /\ ~obj.isMeta => pc' = "done" /\ Waiting(result')
          /\ FirstBlockIsInterrupt(ContentOf(obj))
             => pc' = "done" /\ via' = "interrupt" /\ Idle(result')
          /\ pc' = "done" /\ Idle(result')
             => FirstBlockIsInterrupt(ContentOf(obj))]_vars
C14_Witness ==
    /\ pc = "done" /\ MainUser(obj) /\ PlainInterruptText(obj)
    /\ via = "realUser" /\ Waiting(result)

\* C15: while no terminal case was hit both flags are false, so a scan that
\* exhausts the window (every line unparseable or a skipped record: Other
\* kind, sidechain, synthetic, tool_result, meta, "<"-prefixed text, skipped
\* placeholder) returns isWaiting=false and isToolUseWaiting=false.
C15_ExhaustedScanIsIdle ==
    /\ pc \in {"start", "loop", "parsed"} => Idle(result)
    /\ pc = "done" /\ i < 0 => Idle(result)
C15_Witness ==
    /\ pc = "done" /\ i < 0 /\ n = 3 /\ via = "systemGenerated"
    /\ toolResultSeen /\ textResponseSeen /\ Idle(result)

\* C16: readTailMetadata never raises to its caller: wherever the invocation
\* stands it has a next step that leads to a returned result (a throw is
\* caught and returns the result built so far), and for a missing, unreadable
\* or empty file what it returns is the all-idle default.
C16_NeverRaises ==
    /\ pc \in {"start", "loop", "parsed", "done"}
    /\ ENABLED Next
    /\ pc = "done" /\ n = 0 => result = DefaultResult
C16_Witness ==
    /\ pc = "done" /\ via = "catch" /\ obj.json = "null"
    /\ i > 0 /\ toolResultSeen /\ Idle(result)

\* A line that is not a valid record: malformed JSON or a fragment, a JSON
\* value that is no object, a record with a non-object element in its block
\* sequence.
InvalidLine(line) == line.json # "object" \/ ~ValidRecord(line)
Without(lines, k) == SubSeq(lines, 1, k - 1) \o SubSeq(lines, k + 1, Len(lines))
\* C17: a line of the tail window that is not a valid record is skipped
\* without aborting the scan: what an invocation returned is what the walk
\* returns on the same window with that line removed.  (The code aborts the
\* scan at a JSON null line and at a null element of a block sequence.)
C17_InvalidLineIsSkipped ==
    \A r \in 1..Len(runs) :
        \A k \in 1..Len(TailLines(disk)) :
            InvalidLine(TailLines(disk)[k])
            => runs[r].outcome.result
                   = WalkLines(Without(TailLines(disk), k), runs[r].clock).result

\* The lines of a file that lie wholly within its last TailBytes bytes.
RECURSIVE WhollyInWindow(_)
WhollyInWindow(file) ==
    IF FileSize(file) <= TailBytes THEN file ELSE WhollyInWindow(Tail(file))
LargerThanWindow(file) == FileSize(file) > TailBytes
EndsWithGenuineUserTurn(file) ==
    Len(file) >= 1 /\ GenuineUserTurn(file[Len(file)].line)
\* C18 (as stated): for any file larger than 16 KiB whose last record is a
\* genuine user message, an invocation yields isWaiting=true and
\* isToolUseWaiting=false.  It fails when that last record is itself longer
\* than the window: only a fragment of it is read.
C18_Original ==
    \A r \in 1..Len(runs) :
        LargerThanWindow(disk) /\ EndsWithGenuineUserTurn(disk)
        => Waiting(runs[r].outcome.result)
\* C18 (amended): for any file larger than 16 KiB whose last record is a
\* genuine user message of at most 16384 bytes (its newline included), an
\* invocation yields isWaiting=true and isToolUseWaiting=false, and what it
\* returns is what it returns for the lines that lie wholly within the last
\* 16384 bytes: nothing before them is needed.
C18_LastUserMessageInWindowWaits ==
    \A r \in 1..Len(runs) :
        /\ LargerThanWindow(disk) /\ EndsWithGenuineUserTurn(disk)
        /\ disk[Len(disk)].bytes <= TailBytes
        => /\ Waiting(runs[r].outcome.result)
           /\ runs[r].outcome.result
                  = readTailMetadata(WhollyInWindow(disk), runs[r].clock).result
C18_Witness ==
    /\ Len(runs) = 1
    /\ disk = <<Entry(CustomTitle, 17000), Entry(PlainUser, 4000)>>
    /\ TailLines(disk) = <<Unparseable, PlainUser>>
    /\ Waiting(runs[1].outcome.result)

\* C19 (as stated): two invocations on an unchanged file, at any two times,
\* return an identical result.  It fails when the walk ends at an unanswered
\* permission tool whose age passes 3000 ms between the two.
C19_Original ==
    Len(runs) = 2 => runs[1].outcome.result = runs[2].outcome.result
\* C19 (amended): two invocations on an unchanged file end the walk at the
\* same record and return the same lastTimestamp; the flags are identical as
\* well, unless that record is an unanswered permission tool_use with a
\* timestamp that parses, whose age is at most 3000 ms at one invocation and
\* more than 3000 ms at the other.
C19_SameResultUnlessGraceExpires ==
    Len(runs) = 2
    => LET first == runs[1].outcome
           second == runs[2].outcome
       IN  /\ first.at = second.at /\ first.via = second.via
           /\ first.result.lastTimestamp = second.result.lastTimestamp
           /\ first.result # second.result
              => /\ first.via = "permissionTool"
                 /\ ValidTimestamp(TailLines(disk)[first.at])
                 /\ OlderThanGrace(TailLines(disk)[first.at], runs[1].clock)
                        # OlderThanGrace(TailLines(disk)[first.at], runs[2].clock)
C19_Witness ==
    /\ Len(runs) = 2 /\ runs[1].clock = 3999 /\ runs[2].clock = 4000
    /\ runs[1].outcome.via = "permissionTool"
    /\ runs[1].outcome.result = runs[2].outcome.result
    /\ Waiting(runs[2].outcome.result)
    /\ runs[2].outcome.result.lastTimestamp = Newer

SurvivingLine(line) == line # Unparseable /\ Survives(line)
\* The greatest index in a non-empty set of line indices.
Newest(S) == CHOOSE k \in S : \A j \in S : j <= k
\* The indices of the lines of the window that survive the filters.
SurvivingIn(lines) == {k \in 1..Len(lines) : SurvivingLine(lines[k])}
\* No line newer than line k ends the walk before any record is handled (a
\* summary record, or a JSON null line).
NothingEndsWalkAfter(lines, k) ==
    \A j \in (k + 1)..Len(lines) :
        lines[j] = Unparseable
        \/ (lines[j].json # "null" /\ TypeOf(lines[j]) # "summary")
\* What is returned as lastTimestamp when it is captured from the record.
TimestampOf(line) == IF Truthy(line.timestamp) THEN line.timestamp ELSE Undefined

\* C21 as stated: lastTimestamp is that of the newest record of the window
\* that survives the filters, whatever verdict follows, and none is returned
\* when a summary is the newest record.
C21_Original ==
    \A r \in 1..Len(runs) :
        LET lines == TailLines(disk)
            out == runs[r].outcome
        IN  /\ (SurvivingIn(lines) # {}
                /\ NothingEndsWalkAfter(lines, Newest(SurvivingIn(lines))))
               => out.result.lastTimestamp
                    = TimestampOf(lines[Newest(SurvivingIn(lines))])
            /\ (Len(lines) > 0 /\ TypeOf(lines[Len(lines)]) = "summary")
               => out.result.lastTimestamp = Undefined

\* C21 (amended): lastTimestamp is captured once, from the newest record that
\* survives the filters and carries a non-empty timestamp among the records
\* the walk reaches, and is returned with whatever verdict follows; when the
\* walk reaches no such record (a summary is the newest record), none is
\* returned.
C21_LastTimestampFromNewestStamped ==
    \A r \in 1..Len(runs) :
        LET lines == TailLines(disk)
            out == runs[r].outcome
            stamped == {k \in SurvivingIn(lines) :
                          k >= out.at /\ Truthy(lines[k].timestamp)}
        IN  /\ stamped # {} => out.result.lastTimestamp = lines[Newest(stamped)].timestamp
            /\ stamped = {} => out.result.lastTimestamp = Undefined
            /\ (Len(lines) > 0 /\ TypeOf(lines[Len(lines)]) = "summary")
               => out.result.lastTimestamp = Undefined
\* A tool_result record stamped Older is skipped and an older tool_use record
\* stamped Newer ends the walk: the timestamp returned is the skipped record's.
C21_Witness ==
    /\ Len(runs) > 0 /\ Len(disk) = 2
    /\ disk[1].line = BashCall /\ disk[2].line = ToolResultUser
    /\ runs[1].outcome.at = 1
    /\ runs[1].outcome.result.lastTimestamp = Older

(***************************************************************************)
(* The captured branch.                                                    *)
(***************************************************************************)
\* The indices of the user and assistant records of the window that are not
\* sidechain records, and of those among them that carry a gitBranch.
MainRecordsIn(lines) ==
    {k \in 1..Len(lines) :
        /\ lines[k] # Unparseable
        /\ IsConversation(lines[k])
        /\ ~lines[k].isSidechain}
BranchedIn(lines) == {k \in MainRecordsIn(lines) : Truthy(GitBranchOf(lines[k]))}

MaxListedLines == 2

\* The values Date.now() may return while the list is loaded: five minutes
\* after the records stamped Newer, and ten minutes less one millisecond, ten
\* minutes, ten minutes and one millisecond after them.
ListNows == {301000, 600999, 601000, 601001}
\* stat.mtime.getTime(): the file was last written with the record stamped
\* Older, or with the one stamped Newer.
Mtimes == {500, 1000}

\* Mutant: a session counts as stale from an age of exactly ten minutes on.
IsStale_Inclusive(tailMeta, mtime, dateNow) ==
    IF Truthy(tailMeta.lastTimestamp)
    THEN /\ IsValidDate(tailMeta.lastTimestamp.text)
         /\ dateNow - GetTime(tailMeta.lastTimestamp.text) >= 10 * 60 * 1000
    ELSE dateNow - mtime >= 10 * 60 * 1000
\* lastMsgTime, msgAge and isStale (lines 711-715); the age is NaN, and the
\* comparison false, when the captured timestamp is no date.
IsStale(tailMeta, mtime, dateNow) ==
    IF Truthy(tailMeta.lastTimestamp)
    THEN /\ IsValidDate(tailMeta.lastTimestamp.text)
         /\ dateNow - GetTime(tailMeta.lastTimestamp.text) > 10 * 60 * 1000
    ELSE dateNow - mtime > 10 * 60 * 1000

\* The ConversationMeta the close handler resolves to (lines 707-730), as far
\* as the list shows it; tailMeta is what readTailMetadata returned, dateNow
\* what Date.now() returns at line 714.
Resolved(tailMeta, mtime, dateNow) ==
    LET isStale == IsStale(tailMeta, mtime, dateNow)
    IN  [json |-> "object", timestamp |-> mtime, isPinned |-> FALSE,
         isWaiting |-> IF isStale THEN FALSE ELSE tailMeta.isWaiting,
         isToolUseWaiting |-> IF isStale THEN FALSE ELSE tailMeta.isToolUseWaiting]

\* Mutant: a pinned session shows the pin whatever it waits for.
Icon_PinnedFirst(meta) ==
    IF meta.isPinned THEN "pinned"
    ELSE IF meta.isToolUseWaiting THEN "shield"
    ELSE IF meta.isWaiting THEN "loading~spin"
    ELSE "comment-discussion"
\* conversationProvider.ts, lines 29-43.
Icon(meta) ==
    IF meta.isToolUseWaiting THEN "shield"
    ELSE IF meta.isWaiting THEN "loading~spin"
    ELSE IF meta.isPinned THEN "pinned"
    ELSE "comment-discussion"
\* new ConversationItem(meta)
ConversationItem(meta) ==
    [json |-> "object", meta |-> meta,
     contextValue |-> IF meta.isPinned THEN "pinnedConversation" ELSE "conversation",
     icon |-> Icon(meta)]

\* A user message whose timestamp is no date.
MisdatedUser ==
    OnBranch(Record("user", FALSE, FALSE, Str("not-a-date"),
                    UserText(Str("fix this bug"))), "main")
ListedEntries == LogEntries \cup {Entry(MisdatedUser, 4000)}

\* The session's writer appends a line to the log.
SessionGrows ==
    /\ Len(disk) < MaxListedLines
    /\ \E entry \in ListedEntries : disk' = Append(disk, entry)
    /\ runs' = <<>>
    /\ UNCHANGED <<walkVars, listVars, tabVars, titleVars, extensionVars>>

\* The view was refreshed by the file watcher, the timer or the command: the
\* loaded conversations are dropped (conversationProvider.ts, lines 90-93).
Refresh ==
    /\ listing # Undefined
    /\ listing' = Undefined
    /\ item' = Undefined
    /\ UNCHANGED <<walkVars, fileVars, tabVars, titleVars, extensionVars>>

\* Nothing is loaded (getRootItems, line 118): parseConversationFileFast
\* resolves for the log,
\* with null when the scan of the first 30 lines found no title or no session
\* id (lines 692-695), else with the ConversationMeta.  Both reads of the clock
\* fall into the same millisecond.
ParseFast ==
    /\ listing = Undefined
    /\ \E dateNow \in ListNows :
         LET tailMeta == readTailMetadata(disk, dateNow).result
         IN  \E found \in BOOLEAN, mtime \in Mtimes :
                listing' = [json |-> "object", mtime |-> mtime, clock |-> dateNow,
                            tailMeta |-> IF found THEN tailMeta ELSE Undefined,
                            meta |-> IF found
                                     THEN Resolved(tailMeta, mtime, dateNow)
                                     ELSE Null]
    /\ item' = Undefined
    /\ UNCHANGED <<walkVars, fileVars, tabVars, titleVars, extensionVars>>

\* The tree asks for the children: loadConversations marks the session as
\* pinned when the pin file names it (line 167) and the item is built.
BuildItem ==
    /\ listing # Undefined /\ listing.meta # Null
    /\ \E pinned \in BOOLEAN :
         item' = ConversationItem([listing.meta EXCEPT !.isPinned = pinned])
    /\ UNCHANGED <<walkVars, fileVars, listing, tabVars, titleVars, extensionVars>>

NextList ==
    \/ SessionGrows
    \/ Refresh
    \/ ParseFast
    \/ BuildItem

SpecList == InitFile /\ [][NextList]_vars

\* The time of the session's last message as the list takes it: the captured
\* lastTimestamp, the file's modification time when none was captured.
LastMessageTime(tailMeta, mtime) ==
    IF Truthy(tailMeta.lastTimestamp) THEN GetTime(tailMeta.lastTimestamp.text)
    ELSE mtime
\* The step is a load of the list that reports the session.
Reported == listing' # listing /\ listing' # Undefined /\ listing'.meta # Null

C24_FiveMinutesSuppress ==
    [][(Reported /\ listing'.clock - listing'.mtime >= 5 * 60 * 1000)
       => ~listing'.meta.isWaiting /\ ~listing'.meta.isToolUseWaiting]_vars

\* C25: the icon is chosen with the priority tool-permission > spinner >
\* pinned > default: a pinned session that waits shows the waiting icon, and
\* the pinned icon is shown only when both flags are false.
C25_IconPriority ==
    item # Undefined
    => /\ item.meta.isToolUseWaiting => item.icon = "shield"
       /\ (item.meta.isWaiting /\ ~item.meta.isToolUseWaiting)
          => item.icon = "loading~spin"
       /\ item.icon = "pinned"
          <=> (item.meta.isPinned /\ ~item.meta.isWaiting
               /\ ~item.meta.isToolUseWaiting)
       /\ item.icon = "comment-discussion"
          <=> (~item.meta.isPinned /\ ~item.meta.isWaiting
               /\ ~item.meta.isToolUseWaiting)
\* A pinned session that waits for a tool permission shows the shield.
C25_Witness ==
    /\ item # Undefined
    /\ item.meta.isPinned /\ item.meta.isToolUseWaiting
    /\ item.icon = "shield"

(***************************************************************************)
(* SpecTabs: conversations are opened from the list, and tabs are closed.  *)
(* A title is the sequence of its characters (UTF-16 code units).          *)
(***************************************************************************)
MaxTabs == 3

\* The characters of a string literal.
Chars(s) == [k \in 1..Len(s) |-> SubSeq(s, k, k)]
\* The character U+2026, horizontal ellipsis.
Ellipsis == "<U+2026>"

\* The sessions of the list with their titles: two titles that agree in their
\* first 24 characters, and a short one.
Sessions == {"sess-1", "sess-2", "sess-3"}
TitleOf(sessionId) ==
    CASE sessionId = "sess-1" -> Chars("Refactor the parser module for speed")
      [] sessionId = "sess-2" -> Chars("Refactor the parser module for safety")
      [] sessionId = "sess-3" -> Chars("Fix login bug")

\* conversationTitle.length > 25 ? conversationTitle.substring(0, 24) + "…"
\*                               : conversationTitle
\* (part_002, lines 188-192; Claude Code labels its tab by the same rule).
TabTitle(conversationTitle) ==
    IF Len(conversationTitle) > 25
    THEN SubSeq(conversationTitle, 1, 24) \o <<Ellipsis>>
    ELSE conversationTitle

\* map.set(key, value)
MapSet(map, key, value) ==
    [k \in DOMAIN map \cup {key} |-> IF k = key THEN value ELSE map[k]]

\* findTabForSession (part_002, lines 199-224): the index of the first tab
\* whose label is the title registered for the session, 0 for undefined.
findTabForSession(sessionId) ==
    IF sessionId \notin DOMAIN sessionToTitle THEN 0
    ELSE LET matches == {k \in 1..Len(tabs) : tabs[k].label = sessionToTitle[sessionId]}
         IN  IF matches = {} THEN 0
             ELSE CHOOSE k \in matches : \A j \in matches : k <= j

\* The command claudeConversations.open (extension.ts, lines 53-79) for the
\* conversation of a session: an existing tab is focused, else the mapping is
\* registered (registerOpen) and Claude Code opens the session in a new tab.
Open ==
    /\ ~suppressOpen
    /\ \E sessionId \in Sessions :
           LET existing == findTabForSession(sessionId)
               registered == TabTitle(TitleOf(sessionId))
           IN  IF existing # 0
               THEN /\ opened' = [command |-> "focusTab", sessionId |-> sessionId,
                                  tabIndex |-> existing]
                    /\ UNCHANGED <<sessionToTitle, titleToSession, tabs>>
               ELSE /\ Len(tabs) < MaxTabs
                    /\ sessionToTitle' = MapSet(sessionToTitle, sessionId, registered)
                    /\ titleToSession' = MapSet(titleToSession, registered, sessionId)
                    /\ tabs' = Append(tabs, [label |-> registered, sessionID |-> sessionId])
                    /\ opened' = [command |-> "claude-vscode.editor.open",
                                  sessionId |-> sessionId, tabIndex |-> 0]
    /\ UNCHANGED <<walkVars, fileVars, listVars, titleVars, extensionVars>>

\* The user closes a tab; the tracker keeps its maps (trackTabChanges,
\* part_002, lines 163-180, records nothing).
CloseTab ==
    /\ \E k \in 1..Len(tabs) :
         tabs' = SubSeq(tabs, 1, k - 1) \o SubSeq(tabs, k + 1, Len(tabs))
    /\ UNCHANGED <<sessionToTitle, titleToSession, opened>>
    /\ UNCHANGED <<walkVars, fileVars, listVars, titleVars, extensionVars>>

NextTabs ==
    \/ Open
    \/ CloseTab

SpecTabs == InitFile /\ [][NextTabs]_vars

\* The step is an open command (it focused a tab or opened one).
OpenStep == opened' # opened \/ Len(tabs') > Len(tabs)
\* The tabs that show the session.
TabsShowing(sessionId) == {k \in 1..Len(tabs) : tabs[k].sessionID = sessionId}

\* C26: opening a conversation whose session is shown by a tab focuses a tab
\* that shows that session and opens no editor; a new tab is opened, and the
\* mapping registered, only when no tab shows the session.  (The code looks
\* the tab up by its label, which two sessions can share.)
C26_OpenReusesTab ==
    [][OpenStep
       => IF TabsShowing(opened'.sessionId) # {}
          THEN /\ opened'.command = "focusTab"
               /\ opened'.tabIndex \in TabsShowing(opened'.sessionId)
               /\ tabs' = tabs
          ELSE /\ opened'.command = "claude-vscode.editor.open"
               /\ opened'.sessionId \in DOMAIN sessionToTitle'
               /\ Len(tabs') = Len(tabs) + 1]_vars

(***************************************************************************)
(* SpecTitle: normalizeTabTitle (tabTitleUtils, lines 1398-1417 of         *)
(* conversationParser.test.ts) applied to a conversation title.            *)
(***************************************************************************)
MaxRuns == 3

CR == "\r"
LF == "\n"
TAB == "\t"
\* The character U+00A0, a white space that is neither a space nor a line break.
NBSP == "<U+00A0>"
\* The characters String.prototype.trim() strips, as far as titles hold them.
WhiteSpace == {" ", CR, LF, TAB, NBSP}

RECURSIVE DropLeading(_, _)
\* The text without its leading run of the given characters.
DropLeading(text, chars) ==
    IF text # <<>> /\ Head(text) \in chars THEN DropLeading(Tail(text), chars)
    ELSE text
RECURSIVE DropTrailing(_, _)
DropTrailing(text, chars) ==
    IF text # <<>> /\ text[Len(text)] \in chars
    THEN DropTrailing(SubSeq(text, 1, Len(text) - 1), chars)
    ELSE text

RECURSIVE ReplaceLineBreaks(_)
\* text.replace(/[\r\n\t]+/g, " ")
ReplaceLineBreaks(text) ==
    IF text = <<>> THEN <<>>
    ELSE IF Head(text) \in {CR, LF, TAB}
         THEN <<" ">> \o ReplaceLineBreaks(DropLeading(text, {CR, LF, TAB}))
    ELSE <<Head(text)>> \o ReplaceLineBreaks(Tail(text))
RECURSIVE ReplaceSpaces(_)
\* text.replace(/ {2,}/g, " ")
ReplaceSpaces(text) ==
    IF text = <<>> THEN <<>>
    ELSE IF Len(text) >= 2 /\ text[1] = " " /\ text[2] = " "
         THEN <<" ">> \o ReplaceSpaces(DropLeading(text, {" "}))
    ELSE <<Head(text)>> \o ReplaceSpaces(Tail(text))
\* String.prototype.trim()
Trim(text) == DropTrailing(DropLeading(text, WhiteSpace), WhiteSpace)

collapseWhitespace(text) == Trim(ReplaceSpaces(ReplaceLineBreaks(text)))

\* Mutant: a cleaned title of 25 characters is cut as well.
normalizeTabTitle_Cuts25(conversationTitle) ==
    LET cleaned == collapseWhitespace(conversationTitle)
    IN  IF Len(cleaned) >= 25 THEN SubSeq(cleaned, 1, 24) \o <<Ellipsis>>
        ELSE cleaned
normalizeTabTitle(conversationTitle) ==
    LET cleaned == collapseWhitespace(conversationTitle)
    IN  IF Len(cleaned) > 25 THEN SubSeq(cleaned, 1, 24) \o <<Ellipsis>>
        ELSE cleaned

\* The pieces titles are made of: words of 1 to 26 letters, white space, an
\* ellipsis.
Word(length) == SubSeq(Chars("abcdefghijklmnopqrstuvwxyz"), 1, length)
Runs ==
    {Word(k) : k \in {1, 12, 23, 24, 25, 26}}
    \cup {<<" ">>, <<" ", " ">>, <<LF>>, <<CR, LF>>, <<TAB, TAB>>, <<" ", LF, " ">>,
          <<NBSP>>, <<Ellipsis>>}
RECURSIVE Flatten(_)
Flatten(pieces) ==
    IF pieces = <<>> THEN <<>> ELSE Head(pieces) \o Flatten(Tail(pieces))
Titles(maxRuns) ==
    UNION {{Flatten(pieces) : pieces \in [1..k -> Runs]} : k \in 0..maxRuns}

InitTitle ==
    /\ pc = "start" /\ n = 0 /\ i = 0 /\ obj = Undefined
    /\ toolResultSeen = FALSE /\ textResponseSeen = FALSE
    /\ result = DefaultResult
    /\ now = 0 /\ via = "start"
    /\ disk = <<>> /\ runs = <<>>
    /\ listing = Undefined /\ item = Undefined
    /\ sessionToTitle = <<>> /\ titleToSession = <<>> /\ tabs = <<>>
    /\ opened = Undefined
    /\ title \in Titles(MaxRuns)
    /\ tabTitle = Undefined
    /\ written = 0 /\ snapshot = Undefined
    /\ suppressOpen = FALSE /\ selecting = 0 /\ command = Undefined
    /\ pinFile = Undefined /\ pinCall = Undefined

\* const tabTitle = normalizeTabTitle(conversationTitle)
Normalize ==
    /\ tabTitle = Undefined
    /\ tabTitle' = Str(normalizeTabTitle(title))
    /\ UNCHANGED <<walkVars, fileVars, listVars, tabVars, title, extensionVars>>

NextTitle == Normalize

SpecTitle == InitTitle /\ [][NextTitle]_vars

\* The characters a run of which is replaced by one space: the line breaks and
\* tabs, and the space itself.
Blank == {" ", CR, LF, TAB}
RECURSIVE Squeezed(_)
\* The text with each maximal run of blanks that holds a line break, a tab or
\* two or more spaces replaced by one space.
Squeezed(text) ==
    IF text = <<>> THEN <<>>
    ELSE IF Head(text) \in Blank
         THEN <<" ">> \o Squeezed(DropLeading(text, Blank))
    ELSE <<Head(text)>> \o Squeezed(Tail(text))
\* The text without white space at its ends.
Trimmed(text) ==
    LET inner == {k \in 1..Len(text) : text[k] \notin WhiteSpace}
    IN  IF inner = {} THEN <<>>
        ELSE SubSeq(text, CHOOSE k \in inner : \A j \in inner : k <= j, Newest(inner))

\* C27: normalizeTabTitle replaces each run of CR/LF/tab characters and each
\* run of two or more spaces by one space and trims the ends; if and only if
\* the cleaned title is longer than 25 characters it returns its first 24
\* characters followed by the ellipsis; the output never exceeds 25
\* characters, a cleaned title of exactly 25 characters is returned unchanged,
\* and the function applied to its own output returns that output.
C27_NormalizeTabTitle ==
    tabTitle # Undefined
    => LET cleaned == Trimmed(Squeezed(title))
           output == tabTitle.text
       IN  /\ Len(cleaned) > 25 => output = SubSeq(cleaned, 1, 24) \o <<Ellipsis>>
           /\ Len(cleaned) <= 25 => output = cleaned
           /\ Len(output) <= 25
           /\ normalizeTabTitle(output) = output
\* A title of 12 letters, a CR LF and 12 letters is cleaned to exactly 25
\* characters and returned whole.
C27_Witness ==
    /\ tabTitle # Undefined
    /\ title = Word(12) \o <<CR, LF>> \o Word(12)
    /\ Len(tabTitle.text) = 25
    /\ tabTitle.text = Word(12) \o <<" ">> \o Word(12)

(***************************************************************************)
(* The order of the walk.                                                  *)
(***************************************************************************)
\* C28: the verdict is produced by the newest record that is terminal, and
\* the records older than the record that ends the walk do not influence the
\* result: the walk over the window cut off before that record ends at the
\* same record with the same result.  In particular a genuine user message
\* that is the newest line gives isWaiting=true whatever is older (a summary
\* included), and an end_turn assistant record that is the newest line gives
\* both flags false whatever is older.
C28_NewestTerminalDecides ==
    \A r \in 1..Len(runs) :
        LET lines == TailLines(disk)
            out == runs[r].outcome
            alone == WalkLines(SubSeq(lines, out.at, Len(lines)), runs[r].clock)
        IN  /\ out.at > 0 => alone.result = out.result /\ alone.at = 1
            /\ (Len(lines) > 0 /\ GenuineUserTurn(lines[Len(lines)]))
               => Waiting(out.result) /\ out.at = Len(lines)
            /\ (Len(lines) > 0 /\ MainAssistant(lines[Len(lines)])
                /\ TerminalStop(lines[Len(lines)]))
               => Idle(out.result) /\ out.at = Len(lines)
\* A user message, a summary and a new user message: the walk ends at the new
\* message with isWaiting=true.
C28_Witness ==
    /\ Len(runs) > 0 /\ Len(disk) = 3
    /\ disk[1].line = PlainUser /\ disk[2].line = SummaryLine
    /\ disk[3].line = PlainUser /\ disk[3].bytes = 4000
    /\ runs[1].outcome.at = 3
    /\ Waiting(runs[1].outcome.result)

(***************************************************************************)
(* Text placeholders and answered tool chains.                             *)
(***************************************************************************)
\* A user record that carries a tool_result, and a short text-only
\* placeholder of the assistant.
ToolResultRecord(o) ==
    /\ MainUser(o) /\ ~FirstBlockIsInterrupt(ContentOf(o))
    /\ ContainsToolResult(ContentOf(o))
ShortTextPlaceholder(o) ==
    /\ LowTokenRecord(o)
    /\ TextChars(ContentOf(o)) >= 1 /\ TextChars(ContentOf(o)) <= 100
    /\ NamedToolUses(ContentOf(o)) = {}
\* The walk ended at line k, an assistant record with a named tool_use block
\* whose tool_result is among the newer lines.
EndsAtAnsweredToolUse(lines, k) ==
    /\ k > 0
    /\ MainAssistant(lines[k]) /\ ~TerminalStop(lines[k])
    /\ NamedToolUses(ContentOf(lines[k])) # {}
    /\ ~(/\ HasOutputTokens(lines[k])
         /\ TextChars(ContentOf(lines[k])) > 10
         /\ 20 * OutputTokens(lines[k]) < TextChars(ContentOf(lines[k])))
    /\ \E j \in (k + 1)..Len(lines) : ToolResultRecord(lines[j])
\* Some placeholder newer than line k is newer than every tool_result.
PlaceholderNewerThanToolResults(lines, k) ==
    \E p \in (k + 1)..Len(lines) :
        /\ ShortTextPlaceholder(lines[p])
        /\ \A j \in (p + 1)..Len(lines) : ~ToolResultRecord(lines[j])

\* C29: a short text-only placeholder (at most 1 output token, 1 to 100
\* characters of text, no named tool_use) counts as a text response only when
\* no tool_result record is newer than it.  When the walk ends at an assistant
\* tool_use record whose tool_result was seen, both flags are false if such a
\* placeholder is newer than every tool_result, and isWaiting is true if every
\* placeholder has a tool_result newer than it.
C29_PlaceholderBeforeToolResult ==
    \A r \in 1..Len(runs) :
        LET lines == TailLines(disk)
            out == runs[r].outcome
        IN  EndsAtAnsweredToolUse(lines, out.at)
            => IF PlaceholderNewerThanToolResults(lines, out.at)
               THEN Idle(out.result)
               ELSE Waiting(out.result)
\* A tool_use, a text placeholder and then the tool_result: the placeholder
\* marks nothing and the session is reported as waiting.
C29_Witness ==
    /\ Len(runs) > 0 /\ Len(disk) = 3
    /\ disk[1].line = BashCall /\ disk[2].line = TextPlaceholder
    /\ disk[3].line = ToolResultUser
    /\ runs[1].outcome.at = 1
    /\ Waiting(runs[1].outcome.result)

(***************************************************************************)
(* The order of the rules for user records.                                *)
(***************************************************************************)
\* C30: the rules for a user record apply in the order interrupt,
\* tool_result, meta, "<"-prefixed text, genuine turn.  A block-sequence
\* record whose first block carries the interrupt prefix ends the walk with
\* both flags false, also when it contains a tool_result block or is flagged
\* meta, and leaves toolResultSeen as it was; otherwise a record containing a
\* tool_result block sets toolResultSeen and is skipped, also when it is
\* flagged meta; otherwise a meta record is skipped, then a "<"-prefixed text
\* is skipped, both without touching toolResultSeen; any other record ends the
\* walk with isWaiting=true.
C30_UserRulesInOrder ==
    [][pc = "parsed" /\ MainUser(obj)
       => IF FirstBlockIsInterrupt(ContentOf(obj))
          THEN /\ pc' = "done" /\ Idle(result')
               /\ toolResultSeen' = toolResultSeen
          ELSE IF ContainsToolResult(ContentOf(obj))
          THEN /\ pc' = "loop" /\ i' = i - 1
               /\ toolResultSeen' /\ Idle(result')
          ELSE IF obj.isMeta \/ (/\ IsString(ContentOf(obj))
                                 /\ StartsWith(ContentOf(obj).text, "<"))
          THEN /\ pc' = "loop" /\ i' = i - 1
               /\ toolResultSeen' = toolResultSeen /\ Idle(result')
          ELSE pc' = "done" /\ Waiting(result')]_vars
\* The walk ended at a meta record whose first block is the interruption and
\* whose second block is a tool_result, with no tool_result recorded.
C30_Witness ==
    /\ pc = "done" /\ MainUser(obj) /\ obj.isMeta
    /\ FirstBlockIsInterrupt(ContentOf(obj))
    /\ ContainsToolResult(ContentOf(obj))
    /\ ~toolResultSeen /\ Idle(result)

(***************************************************************************)
(* tool_result records.                                                    *)
(***************************************************************************)
\* C31 as stated: every non-sidechain user record whose block-sequence
\* content contains a tool_result block sets toolResultSeen and lets the walk
\* continue.
C31_Original ==
    [][pc = "parsed" /\ MainUser(obj) /\ ContainsToolResult(ContentOf(obj))
       => pc' = "loop" /\ i' = i - 1 /\ toolResultSeen']_vars
\* C31: a non-sidechain user record whose block-sequence content contains a
\* tool_result block is never a human turn (it never gives isWaiting=true);
\* unless its first block carries the interrupt prefix, it sets
\* toolResultSeen and the walk continues with the next older line, the flags
\* untouched.  toolResultSeen, once set, stays set until the walk is over,
\* and a walk that is exhausted right after such a record (a window holding
\* only such a record included) gives both flags false.
C31_ToolResultIsNoTurn ==
    [][/\ pc = "parsed" /\ MainUser(obj) /\ ContainsToolResult(ContentOf(obj))
          => /\ ~result'.isWaiting
             /\ ~FirstBlockIsInterrupt(ContentOf(obj))
                => /\ pc' = "loop" /\ i' = i - 1
                   /\ toolResultSeen' /\ Idle(result')
       /\ toolResultSeen /\ pc' # "start" => toolResultSeen'
       /\ pc' = "done" /\ via' = "toolResult" => Idle(result')]_vars
\* The window held one tool_result record only: exhausted, both flags false.
C31_Witness ==
    /\ pc = "done" /\ n = 1 /\ i = -1 /\ via = "toolResult"
    /\ toolResultSeen /\ Idle(result)

(***************************************************************************)
(* System-generated user messages.                                         *)
(***************************************************************************)
PlainText(o) == MainUser(o) /\ IsString(ContentOf(o))
AngleText(o) == PlainText(o) /\ StartsWith(ContentOf(o).text, "<")
\* C32 as stated: a "<"-prefixed plain text is skipped, and every other plain
\* text of a non-sidechain user record is a genuine turn with isWaiting=true.
C32_Original ==
    [][pc = "parsed" /\ PlainText(obj)
       => IF AngleText(obj)
          THEN pc' = "loop" /\ i' = i - 1 /\ ~result'.isWaiting
          ELSE pc' = "done" /\ Waiting(result')]_vars
\* C32: a non-sidechain user record whose plain-string content starts with
\* "<" is skipped: the walk continues with the next older line, and the flags,
\* toolResultSeen and textResponseSeen are as before, so that the older
\* records decide the verdict.  Plain-string content that does not start with
\* "<" ends the walk with isWaiting=true, provided the record is not flagged
\* meta (a meta record is skipped as well).
C32_AngleTextIsSkipped ==
    [][pc = "parsed" /\ PlainText(obj)
       => IF AngleText(obj) \/ obj.isMeta
          THEN /\ pc' = "loop" /\ i' = i - 1
               /\ Idle(result')
               /\ toolResultSeen' = toolResultSeen
               /\ textResponseSeen' = textResponseSeen
          ELSE pc' = "done" /\ Waiting(result')]_vars
\* The newest of two lines was a "<"-prefixed text: it was skipped and the
\* older line is still to be read.
C32_Witness ==
    /\ pc = "loop" /\ n = 2 /\ i = 0 /\ via = "systemGenerated"
    /\ Idle(result) /\ ~toolResultSeen /\ ~textResponseSeen

(***************************************************************************)
(* The classifier and the clock.                                           *)
(***************************************************************************)
\* Clock readings just before and just after the grace window of a record
\* stamped Newer, and an hour after the records were written.
OtherClocks == {3999, 4001, 3600000}
\* The walk ended at line k, an assistant record whose first named tool_use
\* is a permission tool and whose tool_result is not among the newer lines.
EndsAtUnansweredPermissionCall(lines, k) ==
    /\ k > 0
    /\ MainAssistant(lines[k]) /\ ~TerminalStop(lines[k])
    /\ NamedToolUses(ContentOf(lines[k])) # {}
    /\ FirstNamedTool(ContentOf(lines[k])) \in SpecPermissionToolSet
    /\ \A j \in (k + 1)..Len(lines) : ~ToolResultRecord(lines[j])

\* C33: the classifier performs no staleness suppression.  What the latest
\* invocation returned for a file is what the classifier returns for the same
\* file at any other clock reading, seconds or an hour later, unless the walk
\* ends at an unanswered permission-tool call; there the walk ends at the same
\* record with the same lastTimestamp, and the flags differ only because the
\* record's age is at most 3000 ms at one reading and more at the other.
C33_NoStalenessInClassifier ==
    \A r \in {Len(runs)} \ {0} : \A t \in OtherClocks :
        LET lines == TailLines(disk)
            out == runs[r].outcome
            other == WalkLines(lines, t)
        IN  /\ other.at = out.at
            /\ other.result.lastTimestamp = out.result.lastTimestamp
            /\ other.result # out.result
               => /\ EndsAtUnansweredPermissionCall(lines, out.at)
                  /\ OlderThanGrace(lines[out.at], runs[r].clock)
                         # OlderThanGrace(lines[out.at], t)
\* A user message answered by nobody: isWaiting=true at the invocation, and
\* the file is one for which an hour later the classifier says the same.
C33_Witness ==
    /\ Len(runs) = 1 /\ Len(disk) = 2
    /\ disk[1].line = BashCall /\ disk[2].line = PlainUser
    /\ disk[2].bytes = 4000
    /\ Waiting(runs[1].outcome.result)
    /\ Waiting(readTailMetadata(disk, 3600000).result)

(***************************************************************************)
(* The tail window.                                                        *)
(***************************************************************************)
\* Records that would decide the verdict if they were read.
Preceding ==
    {Entry(PlainUser, 4000), Entry(PlainUser, 17000), Entry(SummaryLine, 4000)}
\* C34: the classification depends only on the tail window.  What the latest
\* invocation returned for a file of TailBytes bytes or more is what the
\* classifier returns, at the same clock reading, for the file with any
\* further record written before it (the last TailBytes bytes are the same),
\* and what an invocation returned for any file is what the classifier returns
\* for the lines that begin within the window: a record that begins before
\* the window start contributes nothing.
C34_OnlyTheTailWindow ==
    \A r \in {Len(runs)} \ {0} :
        LET out == runs[r].outcome
        IN  /\ out.result
                   = readTailMetadata(WhollyInWindow(disk), runs[r].clock).result
            /\ FileSize(disk) >= TailBytes
               => \A before \in Preceding :
                     readTailMetadata(<<before>> \o disk, runs[r].clock).result
                         = out.result
\* A user message of 17000 bytes followed by a sidechain record: the window
\* begins inside the user message, and both flags are false.
C34_Witness ==
    /\ Len(runs) > 0
    /\ disk = <<Entry(PlainUser, 17000), Entry(SidechainUser, 4000)>>
    /\ TailLines(disk) = <<Unparseable, SidechainUser>>
    /\ Idle(runs[1].outcome.result)
    /\ runs[1].outcome.via = "exhausted"

\* From one observation of an unchanged file to a later one the flags are the
\* same, or isWaiting=true has become isToolUseWaiting=true.
SameOrGraceExpired(earlier, later) ==
    \/ /\ earlier.isWaiting = later.isWaiting
       /\ earlier.isToolUseWaiting = later.isToolUseWaiting
    \/ Waiting(earlier) /\ ToolUseWaiting(later)
\* C35: for an unchanged file observed at increasing clock readings the
\* verdict changes only from isWaiting=true to isToolUseWaiting=true: between
\* two invocations, and between the latest invocation and the classifier's
\* result at any earlier or later reading (up to an hour later), the flags
\* are the same or go from isWaiting=true to isToolUseWaiting=true.  As
\* nothing leaves isToolUseWaiting=true, the verdict changes at most once.
C35_VerdictChangesAtMostOnce ==
    \A r \in {Len(runs)} \ {0} :
        LET lines == TailLines(disk)
            out == runs[r].outcome
        IN  /\ r = 2 => SameOrGraceExpired(runs[1].outcome.result, out.result)
            /\ \A t \in OtherClocks :
                  /\ t >= runs[r].clock
                     => SameOrGraceExpired(out.result, WalkLines(lines, t).result)
                  /\ t <= runs[r].clock
                     => SameOrGraceExpired(WalkLines(lines, t).result, out.result)
\* A permission-tool call seen at an age of 3000 ms (isWaiting=true) and again
\* at 3001 ms (isToolUseWaiting=true).
C35_Witness ==
    /\ Len(runs) = 2 /\ runs[1].clock = 4000 /\ runs[2].clock = 4001
    /\ Len(disk) >= 1 /\ disk[Len(disk)].line = BashCall
    /\ Waiting(runs[1].outcome.result)
    /\ ToolUseWaiting(runs[2].outcome.result)

(***************************************************************************)
(* Appending records of other kinds (the rename command, snapshots).       *)
(***************************************************************************)
OtherKind(line) ==
    line.json = "object" /\ line.type \notin {"user", "assistant", "summary"}
\* The step appends one record of another kind to the log.
AppendsOtherKind ==
    /\ Len(disk') = Len(disk) + 1
    /\ SubSeq(disk', 1, Len(disk)) = disk
    /\ OtherKind(disk'[Len(disk')].line)
SameFlags(a, b) ==
    a.isWaiting = b.isWaiting /\ a.isToolUseWaiting = b.isToolUseWaiting
\* Line k of the window `old` is still a whole line of the window `new` of the
\* file grown by one line.
StillInWindow(old, new, k) ==
    LET at == k + Len(new) - 1 - Len(old)
    IN  at >= 1 /\ new[at] = old[k]
\* C36 as stated: appending a record of another kind never changes the flags
\* readTailMetadata returns at a fixed clock reading.
C36_Original ==
    [][AppendsOtherKind
       => \A t \in Nows :
             SameFlags(readTailMetadata(disk', t).result,
                       readTailMetadata(disk, t).result)]_vars
\* C36: appending a record of another kind does not change the flags
\* readTailMetadata returns at a fixed clock reading, provided the record at
\* which the walk ended before the append still lies wholly within the last
\* TailBytes bytes of the grown file (a walk that was exhausted stays
\* exhausted, whatever is appended).
C36_OtherRecordsKeepVerdict ==
    [][AppendsOtherKind
       => \A t \in Nows :
             LET before == readTailMetadata(disk, t)
                 after == readTailMetadata(disk', t)
             IN  \/ before.at > 0
                    /\ ~StillInWindow(TailLines(disk), TailLines(disk'), before.at)
                 \/ SameFlags(after.result, before.result)]_vars
\* A user message followed by a custom-title record: isWaiting=true still.
C36_Witness ==
    /\ Len(runs) > 0
    /\ disk = <<Entry(PlainUser, 4000), Entry(CustomTitle, 4000)>>
    /\ runs[1].outcome.at = 1
    /\ Waiting(runs[1].outcome.result)

(***************************************************************************)
(* SpecRace: readTailMetadata runs while the session's writer appends a    *)
(* line.  The log is append-only; a line may be on the disk in part when   *)
(* fs.statSync looks, and the positioned read may come after the append.   *)
(***************************************************************************)
RaceLines == {PlainUser, CustomTitle, BashCall, ToolResultUser, FinishedReply}
RaceEntries == {Entry(line, 8000) : line \in RaceLines}
\* The bytes of a line of 8000 bytes that a reader may find written: a piece,
\* everything but the newline, and the whole line.
Pieces == {1000, 7999, 8000}

\* The size of the file as fs.statSync reports it.
StatSize ==
    IF Len(disk) = 0 THEN 0
    ELSE FileSize(disk) - (disk[Len(disk)].bytes - written)
LineComplete == IF Len(disk) = 0 THEN TRUE ELSE written = disk[Len(disk)].bytes

\* Mutant: the read positioned from the end of the file as it is now.
TailLinesAt_EndOfFile(file, size) ==
    TailFrom(file, 1, FileSize(file) - ReadSize(size), ReadSize(size))
\* The non-blank lines of the bytes [size - readSize, size) of the file, for
\* the size fs.statSync reported (lines 471-481).
TailLinesAt(file, size) ==
    TailFrom(file, 1, ReadPosition(size, ReadSize(size)), ReadSize(size))

\* The writer begins a line; some or all of its bytes reach the disk.
BeginAppend ==
    /\ LineComplete /\ Len(disk) < MaxFileLines
    /\ \E entry \in RaceEntries, piece \in Pieces :
         /\ disk' = Append(disk, entry)
         /\ written' = piece
    /\ runs' = <<>>
    /\ UNCHANGED <<walkVars, snapshot, listVars, tabVars, titleVars, commandVars,
                   pinVars>>

\* The rest of the line reaches the disk.
CompleteAppend ==
    /\ ~LineComplete
    /\ written' = disk[Len(disk)].bytes
    /\ UNCHANGED <<walkVars, disk, runs, snapshot, listVars, tabVars, titleVars,
                   commandVars, pinVars>>

\* const stat = fs.statSync(filePath)
Stat ==
    /\ snapshot = Undefined /\ Len(runs) = 0
    /\ snapshot' = [size |-> StatSize,
                    before |-> IF LineComplete THEN disk
                               ELSE SubSeq(disk, 1, Len(disk) - 1)]
    /\ UNCHANGED <<walkVars, disk, runs, written, listVars, tabVars, titleVars,
                   commandVars, pinVars>>

\* fs.readSync(fd, buf, 0, readSize, stat.size - readSize), and the walk over
\* what was read.  `before` is the log without the line that was being
\* appended, `after` the log with that line complete.
Read ==
    /\ snapshot # Undefined
    /\ \E dateNow \in Nows :
         runs' = <<[clock |-> dateNow,
                    outcome |-> WalkLines(TailLinesAt(disk, snapshot.size), dateNow),
                    before |-> snapshot.before,
                    after |-> SubSeq(disk, 1,
                                     IF Len(disk) > Len(snapshot.before)
                                     THEN Len(snapshot.before) + 1
                                     ELSE Len(disk))]>>
    /\ snapshot' = Undefined
    /\ UNCHANGED <<walkVars, disk, written, listVars, tabVars, titleVars,
                   commandVars, pinVars>>

NextRace ==
    \/ BeginAppend
    \/ CompleteAppend
    \/ Stat
    \/ Read

SpecRace == InitFile /\ [][NextRace]_vars

\* C37 as stated: whatever the writer does while readTailMetadata runs, the
\* flags returned are those of the log before the append or those of the log
\* after the complete append.
C37_Original ==
    \A r \in 1..Len(runs) :
        \/ SameFlags(runs[r].outcome.result,
                     readTailMetadata(runs[r].before, runs[r].clock).result)
        \/ SameFlags(runs[r].outcome.result,
                     readTailMetadata(runs[r].after, runs[r].clock).result)
\* C37: the flags returned are those of the log before the append or those
\* of the log after the complete append, provided the record at which the
\* walk ends for the log before the append still lies wholly within the last
\* TailBytes bytes of the log after the append (a size that includes a part
\* of the new line moves the window start forward, past older records).
C37_BeforeOrAfterTheAppend ==
    \A r \in 1..Len(runs) :
        LET before == readTailMetadata(runs[r].before, runs[r].clock)
            after == readTailMetadata(runs[r].after, runs[r].clock)
        IN  \/ /\ before.at > 0
               /\ Len(runs[r].after) = Len(runs[r].before) + 1
               /\ ~StillInWindow(TailLines(runs[r].before), TailLines(runs[r].after),
                                 before.at)
            \/ SameFlags(runs[r].outcome.result, before.result)
            \/ SameFlags(runs[r].outcome.result, after.result)
\* A tool_result was being appended after a Bash call when the size was
\* taken, with 1000 bytes written: the read began after the append was
\* complete, and the verdict is that of the log before the append.
C37_Witness ==
    /\ Len(runs) = 1 /\ runs[1].clock = 4001
    /\ disk = <<Entry(BashCall, 8000), Entry(ToolResultUser, 8000)>>
    /\ written = 8000
    /\ runs[1].before = <<Entry(BashCall, 8000)>>
    /\ runs[1].after = disk
    /\ TailLinesAt(disk, 9000) = <<BashCall, Unparseable>>
    /\ ToolUseWaiting(runs[1].outcome.result)
    /\ Waiting(readTailMetadata(disk, 4001).result)

(***************************************************************************)
(* Abandoned sessions.                                                     *)
(***************************************************************************)
\* The load is made more than ten minutes after the log was last written and
\* after the time of the captured timestamp, if it tells one.
LongAbandoned ==
    /\ Reported
    /\ listing'.clock - listing'.mtime > 10 * 60 * 1000
    /\ LET ts == listing'.tailMeta.lastTimestamp
       IN  (Truthy(ts) /\ IsValidDate(ts.text))
           => listing'.clock - GetTime(ts.text) > 10 * 60 * 1000
\* C38: for a session log that stopped changing, the flags reported by
\* parseConversationFileFast are both false on every refresh made long enough
\* after the last write (here: more than ten minutes after the file's
\* modification time and after the newest timestamp that is a date), whatever
\* records and whatever timestamps, present, absent or unparseable, the log
\* ends with.  (The code never suppresses the flags when the captured
\* timestamp is no date.)
C38_NoIndicatorOnAbandonedSession ==
    [][LongAbandoned
       => /\ ~listing'.meta.isWaiting /\ ~listing'.meta.isToolUseWaiting
          /\ LET later == Resolved(readTailMetadata(disk, 3600000).result,
                                   listing'.mtime, 3600000)
             IN  ~later.isWaiting /\ ~later.isToolUseWaiting]_vars

(***************************************************************************)
(* pinManager.ts: the pinned sessions, kept in a JSON file.  The file is   *)
(* modelled by the value JSON.parse gives for it (JSON.stringify and       *)
(* JSON.parse are inverse to each other on an object with an array of      *)
(* strings); a missing file is Undefined, a file that is no JSON is        *)
(* Unparseable.                                                            *)
(***************************************************************************)
PinData(ids) == [json |-> "object", pinnedSessionIds |-> ids]
\* lines 15-25: the parsed file, or an empty list when the file is missing
\* or corrupted.
readPinData(file) ==
    IF file = Undefined \/ file = Unparseable THEN PinData(<<>>) ELSE file
\* Array.prototype.includes
Includes(ids, sessionId) == \E k \in 1..Len(ids) : ids[k] = sessionId
\* Array.prototype.filter((id) => id !== sessionId)
RECURSIVE FilterOut(_, _)
FilterOut(ids, sessionId) ==
    IF Len(ids) = 0 THEN <<>>
    ELSE IF ids[1] = sessionId THEN FilterOut(Tail(ids), sessionId)
    ELSE <<ids[1]>> \o FilterOut(Tail(ids), sessionId)
\* Mutant: the session pushed without looking whether it is pinned already.
pinSession_AlwaysPushes(file, sessionId) ==
    PinData(Append(readPinData(file).pinnedSessionIds, sessionId))
\* lines 39-45: the file after pinSession(sessionId); it is written only when
\* the session was not in the list.
pinSession(file, sessionId) ==
    LET data == readPinData(file)
    IN  IF ~Includes(data.pinnedSessionIds, sessionId)
        THEN PinData(Append(data.pinnedSessionIds, sessionId))
        ELSE file
\* lines 47-51: the file after unpinSession(sessionId), always written.
unpinSession(file, sessionId) ==
    PinData(FilterOut(readPinData(file).pinnedSessionIds, sessionId))
\* lines 35-37 and 53-55: new Set(readPinData().pinnedSessionIds).has(sessionId)
isPinned(file, sessionId) ==
    sessionId \in {readPinData(file).pinnedSessionIds[k] :
                     k \in 1..Len(readPinData(file).pinnedSessionIds)}

\* The pin files the extension has written: lists of up to two sessions
\* without repetition; or no file yet.
WrittenPinFiles ==
    {PinData(<<>>)}
    \cup {PinData(<<a>>) : a \in Sessions}
    \cup {PinData(pair) : pair \in {<<a, b>> \in Sessions \X Sessions : a # b}}

InitPins ==
    /\ pc = "start" /\ n = 0 /\ i = 0 /\ obj = Undefined
    /\ toolResultSeen = FALSE /\ textResponseSeen = FALSE
    /\ result = DefaultResult
    /\ now = 0 /\ via = "start"
    /\ disk = <<>> /\ runs = <<>>
    /\ listing = Undefined /\ item = Undefined
    /\ sessionToTitle = <<>> /\ titleToSession = <<>> /\ tabs = <<>>
    /\ opened = Undefined
    /\ title = <<>> /\ tabTitle = Undefined
    /\ written = 0 /\ snapshot = Undefined
    /\ suppressOpen = FALSE /\ selecting = 0 /\ command = Undefined
    /\ pinFile \in {Undefined} \cup WrittenPinFiles
    /\ pinCall = Undefined

PinSession ==
    /\ \E sessionId \in Sessions :
         /\ pinFile' = pinSession(pinFile, sessionId)
         /\ pinCall' = [call |-> "pinSession", sessionId |-> sessionId,
                        before |-> pinFile]
    /\ UNCHANGED <<walkVars, fileVars, listVars, tabVars, titleVars, raceVars,
                   commandVars>>

UnpinSession ==
    /\ \E sessionId \in Sessions :
         /\ pinFile' = unpinSession(pinFile, sessionId)
         /\ pinCall' = [call |-> "unpinSession", sessionId |-> sessionId,
                        before |-> pinFile]
    /\ UNCHANGED <<walkVars, fileVars, listVars, tabVars, titleVars, raceVars,
                   commandVars>>

NextPins ==
    \/ PinSession
    \/ UnpinSession

SpecPins == InitPins /\ [][NextPins]_vars

NoDuplicate(ids) ==
    \A j \in 1..Len(ids) : \A k \in 1..Len(ids) : ids[j] = ids[k] => j = k
\* C40: for any sequence of pinSession and unpinSession calls starting from
\* a pin file the extension wrote or from no file, the stored list never
\* holds a session id twice; after pinSession(id) isPinned(id) is true, after
\* unpinSession(id) it is false, and no call changes whether any other id is
\* pinned.
C40_PinsAreASet ==
    /\ pinFile # Undefined => NoDuplicate(pinFile.pinnedSessionIds)
    /\ pinCall # Undefined
       => /\ pinCall.call = "pinSession" => isPinned(pinFile, pinCall.sessionId)
          /\ pinCall.call = "unpinSession" => ~isPinned(pinFile, pinCall.sessionId)
          /\ \A other \in Sessions \ {pinCall.sessionId} :
                isPinned(pinFile, other) = isPinned(pinCall.before, other)
\* All three sessions pinned, the last by a pinSession on a file of two.
C40_Witness ==
    /\ pinCall # Undefined /\ pinCall.call = "pinSession"
    /\ pinCall.before # Undefined
    /\ Len(pinCall.before.pinnedSessionIds) = 2
    /\ Len(pinFile.pinnedSessionIds) = 3
    /\ \A s \in Sessions : isPinned(pinFile, s)

(***************************************************************************)
(* SpecCommands: the commands togglePin and open of extension.ts.  The     *)
(* togglePin handler awaits list.select; other commands run meanwhile, and *)
(* list.select itself runs the open command of the focused item.           *)
(***************************************************************************)
MaxToggles == 2
NoSelection == "<none>"

\* togglePin up to its await (lines 110-112): the flag is set and list.select
\* is under way.
TogglePin ==
    /\ selecting < MaxToggles
    /\ suppressOpen' = TRUE
    /\ selecting' = selecting + 1
    /\ UNCHANGED <<walkVars, fileVars, listVars, tabVars, titleVars, raceVars,
                   command, pinVars>>

\* list.select resolved: the flag is cleared and the selected conversation,
\* if there is one, is pinned or unpinned and the view refreshed (lines
\* 113-125).
SelectResolves ==
    /\ selecting > 0
    /\ selecting' = selecting - 1
    /\ suppressOpen' = FALSE
    /\ \E selected \in Sessions \cup {NoSelection} :
         /\ command' = [command |-> "togglePin", outcome |-> "resolved",
                        sessionId |-> selected]
         /\ IF selected = NoSelection
            THEN UNCHANGED <<pinFile, listVars>>
            ELSE /\ pinFile' = IF isPinned(pinFile, selected)
                               THEN unpinSession(pinFile, selected)
                               ELSE pinSession(pinFile, selected)
                 /\ listing' = Undefined /\ item' = Undefined
    /\ UNCHANGED <<walkVars, fileVars, tabVars, titleVars, raceVars, pinCall>>

\* list.select rejected: the await throws and the handler is left at once;
\* line 113 is not reached.
SelectRejects ==
    /\ selecting > 0
    /\ selecting' = selecting - 1
    /\ command' = [command |-> "togglePin", outcome |-> "rejected",
                   sessionId |-> NoSelection]
    /\ UNCHANGED <<walkVars, fileVars, listVars, tabVars, titleVars, raceVars,
                   suppressOpen, pinVars>>

\* The open command while the flag is set (line 57): it returns at once.
OpenSuppressed ==
    /\ suppressOpen
    /\ \E sessionId \in Sessions :
         opened' = [command |-> "suppressed", sessionId |-> sessionId,
                    tabIndex |-> 0]
    /\ UNCHANGED <<walkVars, fileVars, listVars, sessionToTitle, titleToSession,
                   tabs, titleVars, extensionVars>>

NextCommands ==
    \/ TogglePin
    \/ SelectResolves
    \/ SelectRejects
    \/ Open
    \/ OpenSuppressed

SpecCommands == InitFile /\ [][NextCommands]_vars

\* C39: after every togglePin command that finishes, also when its
\* list.select failed, suppressOpen is false, and an open command is
\* suppressed only while the list.select of some togglePin is in flight.
\* (The code clears the flag after the await only, so a rejected list.select
\* leaves it set.)
C39_SuppressOpenIsReset ==
    [][/\ (command' # command /\ command'.command = "togglePin")
          => ~suppressOpen'
       /\ (opened' # opened /\ opened'.command = "suppressed")
          => selecting > 0]_vars

====
